---- MODULE Spec2Model ----
(***************************************************************************)
(* Content Identity & Prioritization Engine of ai-tools-website:           *)
(* the canonical slug registry (slug_registry.py) with the two runs that   *)
(* drive it (migrations/backfill_metadata.py, comparison_generator.py),    *)
(* and the importance scorer and tier partitioner (quality_tiers.py).      *)
(*                                                                         *)
(* Slugs, tool ids and registry keys are strings; a tool name is the       *)
(* sequence of its lower-case words.                                       *)
(***************************************************************************)
EXTENDS Integers, Sequences, FiniteSets, TLC

VARIABLES
    registry,        \* the registry object a caller or a run holds in memory
    used_slugs,      \* the mutable set handed to ensure_unique_slug
    now,             \* the clock read by _now_iso()
    last,            \* the last registry operation called, with its arguments and result
    kind,            \* which run this is: "migrate" or "generate"
    dry_run,         \* the run's dry_run flag
    pc,              \* the run's position
    stored_registry, \* the persisted registry document (slug_registry.json)
    stored_kind,     \* what the store holds under the registry's key
    stored_tools,    \* the persisted tools document, its "tools" list
    tools_data,      \* the run's tools list: updated_tools (migrate), tools_data["tools"] (generate)
    tool_copy,       \* migrate_dataset: the tool of the current iteration
    generated_count, \* generate_comparisons: comparisons generated so far
    score_args,      \* calculate_importance_score: tool, external_data, category_scores
    score_result,    \* calculate_importance_score: the value returned, -1 when none was
    score_raised,    \* calculate_importance_score: the exception raised, "none" when none was
    tier_tools,      \* tier_all_tools: the input list of tools
    tier_limits,     \* TIERS["tier1"].max_count and TIERS["tier2"].max_count
    scored_tools,    \* tier_all_tools: the (tool, score) list, tools by input position
    tiered,          \* tier_all_tools: the four lists, tools by input position
    tier_marks,      \* tier_all_tools: _importance_score and _tier set on each tool
    tier_pc,         \* tier_all_tools: its position
    refresh_args,    \* should_refresh: tool, tier and the clock at the call
    refresh_result,  \* should_refresh: "True", "False", the exception raised, "none" before
    enh_stored,      \* enhance_tools_v2: the persisted tools document, its "tools" list
    enh_tools,       \* enhance_tools_v2: the tools list the run holds in memory
    enh_flags,       \* enhance_tools_v2: max_per_run, target_tier, dry_run, force
    enh_pc,          \* enhance_tools_v2: its position
    enh_target,      \* enhance_tools_v2: target_tools, tools by position in the document
    enh_pos,         \* enhance_tools_v2: the next element of target_tools
    enh_updated,     \* enhance_tools_v2: updated_count
    enh_log,         \* enhance_tools_v2: what this run did with each tool it considered
    conc_store,      \* two runs: the persisted registry document they share
    conc_registry,   \* two runs: the registry object each run holds
    conc_used,       \* two runs: each run's used_slugs
    conc_pc,         \* two runs: each run's position
    conc_made,       \* two runs: the registrations each run has made
    conc_overlap,    \* two runs: a run has loaded while the other was between load and save
    cls_args,        \* classify_tool: the tool
    cls_result,      \* classify_tool: the dictionary returned, <<>> before
    slug_args,       \* generate_tool_slug: tool_name, vendor_name, disambiguator
    slug_result,     \* generate_tool_slug: the slug returned, "none" before
    cat_args,        \* compute_category_scores_from_traffic: tools, traffic_by_slug
    cat_result,      \* compute_category_scores_from_traffic: the dictionary returned
    cat_pc,          \* compute_category_scores_from_traffic: "idle", "start", "done"
    fresh_tools,     \* generate_comparisons: tools_data["tools"], payloads with their timestamps
    fresh_registry,  \* generate_comparisons: the registry it holds
    fresh_used,      \* generate_comparisons: used_slugs
    fresh_flags,     \* generate_comparisons: stale_after (days) and force
    fresh_now,       \* generate_comparisons: the day datetime.now() returns
    fresh_count,     \* generate_comparisons: opportunities considered so far
    fresh_last,      \* generate_comparisons: the last opportunity considered and what was done
    tools_json       \* what the store holds under "tools.json": "object" or "missing"

score_vars == <<score_args, score_result, score_raised>>
tier_vars == <<tier_tools, tier_limits, scored_tools, tiered, tier_marks, tier_pc>>
refresh_vars == <<refresh_args, refresh_result>>
enhance_vars == <<enh_stored, enh_tools, enh_flags, enh_pc, enh_target, enh_pos,
                  enh_updated, enh_log>>
conc_vars == <<conc_store, conc_registry, conc_used, conc_pc, conc_made, conc_overlap>>
classify_vars == <<cls_args, cls_result>>
slug_vars == <<slug_args, slug_result>>
traffic_vars == <<cat_args, cat_result, cat_pc>>
fresh_vars == <<fresh_tools, fresh_registry, fresh_used, fresh_flags, fresh_now,
                fresh_count, fresh_last>>
storage_vars == <<tools_json>>
more_vars == <<slug_vars, traffic_vars, fresh_vars, storage_vars>>
aux_vars == <<refresh_vars, enhance_vars, conc_vars, classify_vars, more_vars>>
vars == <<registry, used_slugs, now, last, kind, dry_run, pc, stored_registry, stored_kind,
          stored_tools, tools_data, tool_copy, generated_count, score_vars, tier_vars,
          aux_vars>>
run_vars == <<kind, dry_run, pc, stored_registry, stored_kind, stored_tools, tools_data, tool_copy,
              generated_count>>
registry_vars == <<registry, used_slugs, last>>

(***************************************************************************)
(* Bounds of the model.                                                    *)
(***************************************************************************)
MaxOps == 3          \* direct calls of registry operations in one behaviour
MaxTools == 2        \* tools in the document a migration reads
MaxComparisons == 1  \* comparisons stored on the tools of that document
MaxPerRun == 2       \* max_per_run of generate_comparisons
MaxTierTools == 4    \* tools in a list given to tier_all_tools
MaxCapacity == 1     \* scaled-down max_count of tier1 and of tier2

ToolIds == {"t1", "t2"}
SlugInputs == {"x", "y", "x-2"}

\* The scorer and the partitioner before they are called.
ScorerIdle ==
    /\ score_args = <<>>
    /\ score_result = -1
    /\ score_raised = "none"

PartitionerIdle ==
    /\ tier_tools = <<>>
    /\ tier_limits = [tier1 |-> 0, tier2 |-> 0]
    /\ scored_tools = <<>>
    /\ tiered = [tier1 |-> <<>>, tier2 |-> <<>>, tier3 |-> <<>>, noindex |-> <<>>]
    /\ tier_marks = <<>>
    /\ tier_pc = "idle"

RefreshIdle ==
    /\ refresh_args = <<>>
    /\ refresh_result = "none"

EnhancerIdle ==
    /\ enh_stored = <<>>
    /\ enh_tools = <<>>
    /\ enh_flags = <<>>
    /\ enh_pc = "off"
    /\ enh_target = <<>>
    /\ enh_pos = 0
    /\ enh_updated = 0
    /\ enh_log = <<>>

TwoRunsIdle ==
    /\ conc_store = [tools |-> <<>>, comparisons |-> <<>>]
    /\ conc_registry = <<>>
    /\ conc_used = <<>>
    /\ conc_pc = <<>>
    /\ conc_made = <<>>
    /\ conc_overlap = FALSE

ClassifierIdle ==
    /\ cls_args = <<>>
    /\ cls_result = <<>>

SlugGeneratorIdle ==
    /\ slug_args = <<>>
    /\ slug_result = "none"

CategoryScorerIdle ==
    /\ cat_args = <<>>
    /\ cat_result = <<>>
    /\ cat_pc = "idle"

FreshnessIdle ==
    /\ fresh_tools = <<>>
    /\ fresh_registry = <<>>
    /\ fresh_used = {}
    /\ fresh_flags = <<>>
    /\ fresh_now = 0
    /\ fresh_count = 0
    /\ fresh_last = <<>>

\* The tools document exists.
StorageIdle ==
    tools_json = "object"

MoreIdle ==
    /\ SlugGeneratorIdle
    /\ CategoryScorerIdle
    /\ FreshnessIdle
    /\ StorageIdle

\* Every component outside the registry, the runs, the scorer and the
\* partitioner, before it is called.
AuxIdle ==
    /\ RefreshIdle
    /\ EnhancerIdle
    /\ TwoRunsIdle
    /\ ClassifierIdle
    /\ MoreIdle

(***************************************************************************)
(* Python string primitives used by the code, on TLA+ strings.             *)
(***************************************************************************)
\* The characters of slugs, ids and names, in code-point order.
Alphabet == " -0123456789_abcdefghijklmnopqrstuvwxyz"

CharAt(s, i) == SubSeq(s, i, i)

\* ord(c) up to an order-preserving renumbering.
Ord(c) == CHOOSE i \in 1..Len(Alphabet) : CharAt(Alphabet, i) = c

\* a < b for str
RECURSIVE StrLessFrom(_, _, _)
StrLessFrom(a, b, i) ==
    IF i > Len(a) THEN i <= Len(b)
    ELSE IF i > Len(b) THEN FALSE
    ELSE IF CharAt(a, i) = CharAt(b, i) THEN StrLessFrom(a, b, i + 1)
    ELSE Ord(CharAt(a, i)) < Ord(CharAt(b, i))

StrLess(a, b) == StrLessFrom(a, b, 1)

\* sep.join(parts)
RECURSIVE Join(_, _)
Join(parts, sep) ==
    IF Len(parts) = 0 THEN ""
    ELSE IF Len(parts) = 1 THEN parts[1]
    ELSE parts[1] \o sep \o Join(Tail(parts), sep)

\* s.split(sep) for a one-character sep, scanning from position i with the
\* current piece starting at position from.
RECURSIVE SplitFrom(_, _, _, _)
SplitFrom(s, sep, from, i) ==
    IF i > Len(s) THEN <<SubSeq(s, from, Len(s))>>
    ELSE IF CharAt(s, i) = sep
         THEN <<SubSeq(s, from, i - 1)>> \o SplitFrom(s, sep, i + 1, i + 1)
         ELSE SplitFrom(s, sep, from, i + 1)

Split(s, sep) == SplitFrom(s, sep, 1, 1)

\* s.rfind(c): the 0-based index of the last c in s, -1 when there is none.
RFind(s, c) ==
    LET hits == {i \in 1..Len(s) : CharAt(s, i) = c} IN
    IF hits = {} THEN -1
    ELSE (CHOOSE i \in hits : \A j \in hits : j <= i) - 1

\* s.strip(c)
RECURSIVE StripChar(_, _)
StripChar(s, c) ==
    IF Len(s) = 0 THEN s
    ELSE IF CharAt(s, 1) = c THEN StripChar(SubSeq(s, 2, Len(s)), c)
    ELSE IF CharAt(s, Len(s)) = c THEN StripChar(SubSeq(s, 1, Len(s) - 1), c)
    ELSE s

\* s.startswith(prefix)
StartsWith(s, prefix) ==
    Len(prefix) <= Len(s) /\ SubSeq(s, 1, Len(prefix)) = prefix

\* a in b for str
IsSubstring(a, b) ==
    \E i \in 1..(Len(b) + 1) : i + Len(a) - 1 <= Len(b) /\ SubSeq(b, i, i + Len(a) - 1) = a

(***************************************************************************)
(* seo_utils.py                                                            *)
(***************************************************************************)
DEFAULT_MAX_SLUG_LENGTH == 60
STOPWORDS == {"ai", "app", "apps", "and", "for", "the", "tool", "tools", "with"}

\* generate_slug(text, max_length).  A text is given as the sequence of its
\* words: the runs between whitespace, underscores and hyphens, lower-cased,
\* reduced to ASCII and to [a-z0-9], empty runs dropped; the function joins
\* them with hyphens and truncates.
generate_slug(words, max_length) ==
    LET text == Join(words, "-") IN
    IF Len(text) > max_length
    THEN LET cut == SubSeq(text, 1, max_length)
             last_hyphen == RFind(cut, "-")
         IN  IF last_hyphen * 10 > max_length * 7
             THEN SubSeq(cut, 1, last_hyphen)
             ELSE cut
    ELSE text

\* The for loop of _truncate_slug: the parts kept, given those kept so far.
RECURSIVE truncate_loop(_, _, _, _)
truncate_loop(parts, max_length, truncated, total_length) ==
    IF Len(parts) = 0 THEN truncated
    ELSE LET part_length == Len(parts[1])
             separator == IF Len(truncated) > 0 THEN 1 ELSE 0
         IN  IF total_length + separator + part_length > max_length
             THEN truncated
             ELSE truncate_loop(Tail(parts), max_length, Append(truncated, parts[1]),
                                total_length + separator + part_length)

\* _truncate_slug(parts, max_length)
_truncate_slug(parts, max_length) ==
    IF Len(parts) = 0 THEN ""
    ELSE LET truncated == truncate_loop(parts, max_length, <<>>, 0) IN
         IF Len(truncated) > 0 THEN Join(truncated, "-")
         ELSE LET raw == Join(parts, "-")
                  hard == IF Len(raw) > max_length THEN SubSeq(raw, 1, max_length) ELSE raw
              IN  StripChar(hard, "-")

\* [token for token in parts if token not in STOPWORDS]
RECURSIVE without_stopwords(_)
without_stopwords(parts) ==
    IF Len(parts) = 0 THEN <<>>
    ELSE (IF parts[1] \notin STOPWORDS THEN <<parts[1]>> ELSE <<>>)
         \o without_stopwords(Tail(parts))

\* _sanitize_slug_parts returning the filtered list also when it is empty.
_sanitize_slug_parts_unguarded(parts) ==
    IF Len(parts) = 0 THEN <<>>
    ELSE without_stopwords(parts)

\* _sanitize_slug_parts(parts)
_sanitize_slug_parts(parts) ==
    IF Len(parts) = 0 THEN <<>>
    ELSE LET filtered == without_stopwords(parts) IN
         IF Len(filtered) > 0 THEN filtered ELSE parts

\* generate_tool_slug(tool_name, vendor_name, disambiguator=...); an absent
\* vendor or disambiguator is the empty text <<>>.
generate_tool_slug(tool_name, vendor_name, disambiguator) ==
    LET name_slug == generate_slug(tool_name, DEFAULT_MAX_SLUG_LENGTH)
        from_disambiguator ==
            IF name_slug = "" /\ Len(disambiguator) > 0
            THEN generate_slug(disambiguator, DEFAULT_MAX_SLUG_LENGTH)
            ELSE name_slug
        used_disambiguator_as_base == name_slug = "" /\ from_disambiguator # ""
        base_slug ==
            IF from_disambiguator = "" /\ Len(vendor_name) > 0
            THEN generate_slug(vendor_name, DEFAULT_MAX_SLUG_LENGTH)
            ELSE from_disambiguator
    IN  IF base_slug = "" THEN ""
        ELSE LET parts == _sanitize_slug_parts(Split(base_slug, "-"))
                 slug0 == _truncate_slug(parts, DEFAULT_MAX_SLUG_LENGTH)
                 vendor_slug == generate_slug(vendor_name, 20)
                 slug1 == IF Len(vendor_name) > 0 /\ vendor_slug # ""
                             /\ ~StartsWith(slug0, vendor_slug \o "-")
                          THEN _truncate_slug(<<vendor_slug>> \o Split(slug0, "-"),
                                              DEFAULT_MAX_SLUG_LENGTH)
                          ELSE slug0
                 disambiguator_slug == generate_slug(disambiguator, 15)
             IN  IF Len(disambiguator) > 0 /\ ~used_disambiguator_as_base
                    /\ disambiguator_slug # ""
                 THEN _truncate_slug(Split(slug1, "-") \o <<disambiguator_slug>>,
                                     DEFAULT_MAX_SLUG_LENGTH)
                 ELSE slug1

\* generate_comparison_slug(tool1_name, tool2_name, tool1_slug=, tool2_slug=)
generate_comparison_slug(tool1_name, tool2_name, tool1_slug, tool2_slug) ==
    LET slug1 == IF tool1_slug # "" THEN tool1_slug ELSE generate_slug(tool1_name, 25)
        slug2 == IF tool2_slug # "" THEN tool2_slug ELSE generate_slug(tool2_name, 25)
    IN  slug1 \o "-vs-" \o slug2

(***************************************************************************)
(* slug_registry.py                                                        *)
(***************************************************************************)
DEFAULT_REGISTRY == [tools |-> <<>>, comparisons |-> <<>>]

\* The while loop of ensure_unique_slug, from counter on.
RECURSIVE ensure_unique_loop(_, _, _)
ensure_unique_loop(base, counter, existing) ==
    LET candidate == base \o "-" \o ToString(counter) IN
    IF candidate \notin existing
    THEN [ret |-> candidate, existing |-> existing \cup {candidate}]
    ELSE ensure_unique_loop(base, counter + 1, existing)

\* ensure_unique_slug starting its suffixes at 3.
ensure_unique_slug_from3(slug, existing) ==
    IF slug \notin existing
    THEN [ret |-> slug, existing |-> existing \cup {slug}]
    ELSE ensure_unique_loop(slug, 3, existing)

\* ensure_unique_slug returning without reserving the slug it hands out.
ensure_unique_slug_unreserved(slug, existing) ==
    IF slug \notin existing
    THEN [ret |-> slug, existing |-> existing]
    ELSE [ret |-> ensure_unique_loop(slug, 2, existing).ret, existing |-> existing]

\* ensure_unique_slug(slug, existing): the returned slug and the set as the
\* call leaves it (the code mutates the caller's set in place).
ensure_unique_slug(slug, existing) ==
    IF slug \notin existing
    THEN [ret |-> slug, existing |-> existing \cup {slug}]
    ELSE ensure_unique_loop(slug, 2, existing)

\* register_tool_slug keeping only the latest replaced slug in the history.
register_tool_slug_rewriting(reg, tool_id, slug, t) ==
    LET tools_section == reg.tools IN
    IF tool_id \notin DOMAIN tools_section
    THEN [reg EXCEPT !.tools =
              (tool_id :> [current |-> slug, history |-> <<>>]) @@ tools_section]
    ELSE LET entry == tools_section[tool_id] IN
         IF entry.current = slug
         THEN reg
         ELSE [reg EXCEPT !.tools[tool_id] =
                  [current |-> slug,
                   history |-> <<[slug |-> entry.current, replaced_at |-> t]>>]]

\* register_tool_slug without the early return on an unchanged slug.
register_tool_slug_always(reg, tool_id, slug, t) ==
    LET tools_section == reg.tools IN
    IF tool_id \notin DOMAIN tools_section
    THEN [reg EXCEPT !.tools =
              (tool_id :> [current |-> slug, history |-> <<>>]) @@ tools_section]
    ELSE LET entry == tools_section[tool_id] IN
         [reg EXCEPT !.tools[tool_id] =
             [current |-> slug,
              history |-> Append(entry.history,
                                 [slug |-> entry.current, replaced_at |-> t])]]

\* register_tool_slug(registry, tool_id, slug) called at time t.
register_tool_slug(reg, tool_id, slug, t) ==
    LET tools_section == reg.tools IN
    IF tool_id \notin DOMAIN tools_section
    THEN [reg EXCEPT !.tools =
              (tool_id :> [current |-> slug, history |-> <<>>]) @@ tools_section]
    ELSE LET entry == tools_section[tool_id]
             current == entry.current
         IN  IF current = slug
             THEN reg
             ELSE [reg EXCEPT !.tools[tool_id] =
                      [current |-> slug,
                       history |-> IF current # ""
                                   THEN Append(entry.history,
                                               [slug |-> current, replaced_at |-> t])
                                   ELSE entry.history]]

\* register_comparison_slug forgetting the slugs it replaces.
register_comparison_slug_forgetting(reg, comparison_key, slug, participants, t) ==
    LET comparisons_section == reg.comparisons IN
    IF comparison_key \notin DOMAIN comparisons_section
    THEN [reg EXCEPT !.comparisons =
              (comparison_key :> [current |-> slug,
                                  participants |-> participants,
                                  history |-> <<>>]) @@ comparisons_section]
    ELSE LET entry == comparisons_section[comparison_key] IN
         IF entry.current = slug
         THEN reg
         ELSE [reg EXCEPT !.comparisons[comparison_key] =
                  [current |-> slug,
                   participants |-> participants,
                   history |-> <<>>]]

\* register_comparison_slug recording the new slug, not the replaced one.
register_comparison_slug_newslug(reg, comparison_key, slug, participants, t) ==
    LET comparisons_section == reg.comparisons IN
    IF comparison_key \notin DOMAIN comparisons_section
    THEN [reg EXCEPT !.comparisons =
              (comparison_key :> [current |-> slug,
                                  participants |-> participants,
                                  history |-> <<>>]) @@ comparisons_section]
    ELSE LET entry == comparisons_section[comparison_key] IN
         IF entry.current = slug
         THEN reg
         ELSE [reg EXCEPT !.comparisons[comparison_key] =
                  [current |-> slug,
                   participants |-> participants,
                   history |-> Append(entry.history,
                                      [slug |-> slug, replaced_at |-> t])]]

\* register_comparison_slug(registry, comparison_key, slug, participants=...)
\* called at time t.
register_comparison_slug(reg, comparison_key, slug, participants, t) ==
    LET comparisons_section == reg.comparisons IN
    IF comparison_key \notin DOMAIN comparisons_section
    THEN [reg EXCEPT !.comparisons =
              (comparison_key :> [current |-> slug,
                                  participants |-> participants,
                                  history |-> <<>>]) @@ comparisons_section]
    ELSE LET entry == comparisons_section[comparison_key]
             current == entry.current
         IN  IF current = slug
             THEN reg
             ELSE [reg EXCEPT !.comparisons[comparison_key] =
                      [current |-> slug,
                       participants |-> participants,
                       history |-> IF current # ""
                                   THEN Append(entry.history,
                                               [slug |-> current, replaced_at |-> t])
                                   ELSE entry.history]]

\* The slugs one registry entry contributes to collect_existing_slugs.
entry_slugs(entry) ==
    (IF entry.current # "" THEN {entry.current} ELSE {})
    \cup {entry.history[i].slug : i \in {j \in DOMAIN entry.history : entry.history[j].slug # ""}}

\* collect_existing_slugs(registry)
collect_existing_slugs(reg) ==
    UNION {entry_slugs(reg.tools[k]) : k \in DOMAIN reg.tools}
    \cup UNION {entry_slugs(reg.comparisons[k]) : k \in DOMAIN reg.comparisons}

(***************************************************************************)
(* Direct use of the registry operations: any sequence of calls of the     *)
(* four functions on one registry object and one slug set.                 *)
(***************************************************************************)
\* last, before any call.  repeated: the call has the operation, key and slug
\* of the call before it.
NoCall == [op |-> "none", key |-> "", slug |-> "", ret |-> "", repeated |-> FALSE,
           registry_before |-> DEFAULT_REGISTRY, existing_before |-> {}]

NoTool == [id |-> "", name |-> <<>>, slug |-> "", comparisons |-> <<>>]

\* Participant maps of the comparisons registered directly.
ParticipantInputs ==
    {[tool1 |-> a, tool2 |-> b] : a \in ToolIds, b \in ToolIds}

\* "__".join(sorted(participants.values())) for ids of ToolIds.
OpsKey(p) ==
    IF p.tool1 = "t2" /\ p.tool2 = "t1" THEN "t1__t2"
    ELSE p.tool1 \o "__" \o p.tool2

InitOps ==
    /\ registry = DEFAULT_REGISTRY
    /\ used_slugs \in SUBSET {"x", "x-2", "x-3"}
    /\ now = 0
    /\ last = NoCall
    /\ kind = "none"
    /\ dry_run = FALSE
    /\ pc = "idle"
    /\ stored_registry = DEFAULT_REGISTRY
    /\ stored_kind = "object"
    /\ stored_tools = <<>>
    /\ tools_data = <<>>
    /\ tool_copy = NoTool
    /\ generated_count = 0
    /\ ScorerIdle
    /\ AuxIdle
    /\ PartitionerIdle

CallEnsureUnique ==
    \E slug \in SlugInputs :
        LET r == ensure_unique_slug(slug, used_slugs) IN
        /\ now < MaxOps
        /\ used_slugs' = r.existing
        /\ last' = [op |-> "ensure_unique_slug", key |-> "", slug |-> slug, ret |-> r.ret,
                    repeated |-> last.op = "ensure_unique_slug" /\ last.slug = slug,
                    registry_before |-> registry, existing_before |-> used_slugs]
        /\ now' = now + 1
        /\ UNCHANGED <<aux_vars, registry, run_vars, score_vars, tier_vars>>

CallRegisterTool ==
    \E tool_id \in ToolIds, slug \in SlugInputs :
        /\ now < MaxOps
        /\ registry' = register_tool_slug(registry, tool_id, slug, now)
        /\ last' = [op |-> "register_tool_slug", key |-> tool_id, slug |-> slug, ret |-> "",
                    repeated |-> last.op = "register_tool_slug" /\ last.key = tool_id
                                 /\ last.slug = slug,
                    registry_before |-> registry, existing_before |-> used_slugs]
        /\ now' = now + 1
        /\ UNCHANGED <<aux_vars, used_slugs, run_vars, score_vars, tier_vars>>

CallRegisterComparison ==
    \E p \in ParticipantInputs, slug \in SlugInputs :
        /\ now < MaxOps
        /\ registry' = register_comparison_slug(registry, OpsKey(p), slug, p, now)
        /\ last' = [op |-> "register_comparison_slug", key |-> OpsKey(p), slug |-> slug,
                    ret |-> "",
                    repeated |-> last.op = "register_comparison_slug"
                                 /\ last.key = OpsKey(p) /\ last.slug = slug,
                    registry_before |-> registry, existing_before |-> used_slugs]
        /\ now' = now + 1
        /\ UNCHANGED <<aux_vars, used_slugs, run_vars, score_vars, tier_vars>>

\* existing = collect_existing_slugs(registry), as both runs seed their set.
CallCollect ==
    /\ now < MaxOps
    /\ used_slugs' = collect_existing_slugs(registry)
    /\ last' = [op |-> "collect_existing_slugs", key |-> "", slug |-> "", ret |-> "",
                repeated |-> last.op = "collect_existing_slugs",
                registry_before |-> registry, existing_before |-> used_slugs]
    /\ now' = now + 1
    /\ UNCHANGED <<aux_vars, registry, run_vars, score_vars, tier_vars>>

NextOps ==
    \/ CallEnsureUnique
    \/ CallRegisterTool
    \/ CallRegisterComparison
    \/ CallCollect

SpecOps == InitOps /\ [][NextOps]_vars

(***************************************************************************)
(* The two runs that use the registry: migrate_dataset                     *)
(* (migrations/backfill_metadata.py) and generate_comparisons              *)
(* (comparison_generator.py).  Of a tool record the model keeps id, name,  *)
(* slug and comparisons, and of a stored comparison its slug.              *)
(***************************************************************************)
Names == {<<"x">>, <<"the", "x">>, <<"y">>}
DocSlugs == {"", "y"}

\* name.lower() and name.lower().replace(" ", "_") of a name given by its words
NameLower(name) == Join(name, " ")
NameKey(name) == Join(name, "_")

\* The key without the sort: "__".join(participants.values())
participants_key_unsorted(participants) ==
    participants.tool1 \o "__" \o participants.tool2

\* "__".join(sorted(participants.values()))
participants_key(participants) ==
    IF StrLess(participants.tool2, participants.tool1)
    THEN participants.tool2 \o "__" \o participants.tool1
    ELSE participants.tool1 \o "__" \o participants.tool2

\* registry.get(section, {}).get(key, {}).get("current"), "" for None
current_tool_slug(reg, tool_id) ==
    IF tool_id \in DOMAIN reg.tools THEN reg.tools[tool_id].current ELSE ""

current_comparison_slug(reg, key) ==
    IF key \in DOMAIN reg.comparisons THEN reg.comparisons[key].current ELSE ""

\* if current_slug: used.discard(current_slug)
discard_current(used, current_slug) ==
    IF current_slug # "" THEN used \ {current_slug} ELSE used

\* The first record of tools whose name is name, NoTool when there is none.
first_named(tools, name) ==
    LET hits == {i \in DOMAIN tools : tools[i].name = name} IN
    IF hits = {} THEN NoTool
    ELSE tools[CHOOSE i \in hits : \A j \in hits : i <= j]

\* What the store can hold under the registry's key: a JSON object, nothing,
\* bytes that are not JSON, JSON that is not an object.
StoredKinds == {"object", "missing", "not_json", "not_object"}

\* How the store answers a request: normally, or with an error other than
\* NoSuchKey.
StoreFaults == {"none", "S3Error"}

\* Registries a run can find stored: written by earlier runs, no two subjects
\* sharing a current slug.
InitialRegistries ==
    { DEFAULT_REGISTRY,
      register_tool_slug(DEFAULT_REGISTRY, "t1", "x", 0),
      register_tool_slug(register_tool_slug(DEFAULT_REGISTRY, "t1", "x", 0), "t1", "y", 0),
      register_comparison_slug(register_tool_slug(DEFAULT_REGISTRY, "t1", "x", 0),
                               "t1__t2", "x-vs-y", [tool1 |-> "t1", tool2 |-> "t2"], 0) }

\* Tools documents generate_comparisons can find stored.
StoredToolRecords ==
    {[id |-> i, name |-> n, slug |-> sl, comparisons |-> <<>>] :
        i \in ToolIds, n \in Names, sl \in DocSlugs}

InitialToolDocs ==
    {<<>>} \cup {<<a>> : a \in {r \in StoredToolRecords : r.id = "t1"}}
    \cup {<<a, b>> : a \in {r \in StoredToolRecords : r.id = "t1"},
                     b \in {r \in StoredToolRecords : r.id = "t2"}}

\* The document migrate_dataset reads is not fixed in advance: every
\* iteration draws its next record, so a run covers every document of up to
\* MaxTools tools with up to MaxComparisons comparisons between them.
Unread == <<[id |-> "?", name |-> <<>>, slug |-> "", comparisons |-> <<>>]>>

Init ==
    /\ kind \in {"migrate", "generate"}
    /\ dry_run \in BOOLEAN
    /\ pc = "start"
    /\ stored_kind \in StoredKinds
    /\ stored_registry \in (IF stored_kind = "object" THEN InitialRegistries
                            ELSE {DEFAULT_REGISTRY})
    /\ tools_json \in {"object", "missing"}
    /\ stored_tools \in (IF tools_json = "missing" THEN {<<>>}
                         ELSE IF kind = "generate" THEN InitialToolDocs ELSE {Unread})
    /\ registry = DEFAULT_REGISTRY
    /\ used_slugs = {}
    /\ tools_data = <<>>
    /\ tool_copy = NoTool
    /\ generated_count = 0
    /\ ScorerIdle
    /\ RefreshIdle
    /\ EnhancerIdle
    /\ TwoRunsIdle
    /\ ClassifierIdle
    /\ SlugGeneratorIdle
    /\ CategoryScorerIdle
    /\ FreshnessIdle
    /\ PartitionerIdle
    /\ now = 1
    /\ last = NoCall

\* load_tools() lines 78-91 when the store answers: a missing "tools.json"
\* is initialised, save_tools(empty_data) storing a document with no tools,
\* and that document is returned.  stored is what the store holds
\* afterwards.
load_tools(document_kind) ==
    [stored |-> "object", created |-> document_kind = "missing"]

\* load_slug_registry returning an empty registry whenever it cannot read
\* the document.
load_slug_registry_masking(document_kind, document, fault) ==
    IF fault = "none" /\ document_kind = "object"
    THEN [outcome |-> "ok", data |-> document]
    ELSE [outcome |-> "NoSuchKey", data |-> DEFAULT_REGISTRY]

\* load_slug_registry(): what leaves the function (a value, or the exception
\* it raises) when the store holds document_kind under the key and answers
\* with fault.
\*   line 36: get_object raises S3Error, with NoSuchKey for a missing key;
\*   line 37: json.loads raises JSONDecodeError on a payload that is not JSON;
\*   lines 38-39: ValueError on a payload that is not an object;
\*   lines 41-46: NoSuchKey alone is turned into a copy of DEFAULT_REGISTRY.
load_slug_registry(document_kind, document, fault) ==
    IF fault # "none" THEN [outcome |-> fault, data |-> DEFAULT_REGISTRY]
    ELSE IF document_kind = "missing"
    THEN [outcome |-> "NoSuchKey", data |-> DEFAULT_REGISTRY]
    ELSE IF document_kind = "not_json"
    THEN [outcome |-> "JSONDecodeError", data |-> DEFAULT_REGISTRY]
    ELSE IF document_kind = "not_object"
    THEN [outcome |-> "ValueError", data |-> DEFAULT_REGISTRY]
    ELSE [outcome |-> "ok", data |-> document]

\* migrate_dataset lines 101-113, generate_comparisons lines 424-432:
\* load both documents and seed the set of used slugs.  A failed load of
\* the registry leaves the run through the exception.
Load ==
    \E fault \in StoreFaults :
        LET loaded == load_slug_registry(stored_kind, stored_registry, fault) IN
        /\ pc = "start"
        /\ tools_json' = load_tools(tools_json).stored
        /\ last' = [op |-> "load_slug_registry", key |-> stored_kind, slug |-> fault,
                    ret |-> loaded.outcome, repeated |-> FALSE,
                    registry_before |-> loaded.data, existing_before |-> {}]
        /\ IF loaded.outcome \in {"ok", "NoSuchKey"}
           THEN /\ registry' = loaded.data
                /\ tools_data' = IF kind = "generate" THEN stored_tools ELSE <<>>
                /\ used_slugs' =
                      collect_existing_slugs(loaded.data)
                      \cup (IF kind = "generate"
                            THEN {stored_tools[i].slug : i \in {j \in DOMAIN stored_tools :
                                                                    stored_tools[j].slug # ""}}
                            ELSE {})
                /\ pc' = "loop"
           ELSE /\ pc' = "aborted"
                /\ UNCHANGED <<registry, tools_data, used_slugs>>
        /\ UNCHANGED <<refresh_vars, enhance_vars, conc_vars, classify_vars, slug_vars,
                       traffic_vars, fresh_vars, score_vars, tier_vars, now, kind, dry_run,
                       stored_registry, stored_kind, stored_tools, tool_copy,
                       generated_count>>

\* migrate_dataset lines 116-134: one tool of the document.
MigrateTool ==
    \E tool_id \in ToolIds, name \in Names, doc_slug \in DocSlugs :
        LET current_slug == current_tool_slug(registry, tool_id)
            first == IF doc_slug # "" THEN doc_slug
                     ELSE IF current_slug # "" THEN current_slug
                     ELSE generate_tool_slug(name, <<>>, <<>>)
            desired_slug ==
                IF first # "" THEN first
                ELSE generate_tool_slug(name, <<>>,
                        <<IF Len(tool_id) > 6 THEN SubSeq(tool_id, 1, 6) ELSE tool_id>>)
            r == ensure_unique_slug(desired_slug, discard_current(used_slugs, current_slug))
        IN  /\ pc = "loop"
            /\ kind = "migrate"
            /\ stored_tools = Unread
            /\ Len(tools_data) < MaxTools
            /\ used_slugs' = r.existing
            /\ registry' = register_tool_slug(registry, tool_id, r.ret, now)
            /\ tool_copy' = [id |-> tool_id, name |-> name, slug |-> r.ret,
                             comparisons |-> <<>>]
            /\ now' = now + 1
            /\ pc' = "comparisons"
            /\ UNCHANGED <<aux_vars, score_vars, tier_vars, last, kind, dry_run, stored_registry, stored_kind, stored_tools, tools_data,
                           generated_count>>

\* resolve(name) of _extract_comparison_participants: tool_slug_lookup holds
\* the tools processed so far, the current one included.
resolve(name, default_tool_id, default_tool_slug) ==
    LET candidate == first_named(Append(tools_data, tool_copy), name)
        generated_slug == generate_tool_slug(name, <<>>, <<>>)
    IN  IF candidate # NoTool THEN [id |-> candidate.id, slug |-> candidate.slug]
        ELSE [id |-> IF NameLower(name) # "" THEN NameLower(name) ELSE default_tool_id,
              slug |-> IF generated_slug # "" THEN generated_slug ELSE default_tool_slug]

\* The comparisons the migration has processed so far.
RECURSIVE count_comparisons(_)
count_comparisons(tools) ==
    IF Len(tools) = 0 THEN 0
    ELSE Cardinality(DOMAIN tools[1].comparisons) + count_comparisons(Tail(tools))

comparisons_read == count_comparisons(Append(tools_data, tool_copy))

\* migrate_dataset lines 149-177: one comparison of the current tool.
MigrateComparison ==
    \E tool1_name \in Names, tool2_name \in Names, doc_slug \in DocSlugs :
        LET comp_key == NameKey(tool1_name) \o "_vs_" \o NameKey(tool2_name)
            tool1 == resolve(tool1_name, tool_copy.id, tool_copy.slug)
            tool2 == resolve(tool2_name, tool_copy.id, tool_copy.slug)
            participants == [tool1 |-> tool1.id, tool2 |-> tool2.id]
            comparison_key == participants_key(participants)
            current_slug == current_comparison_slug(registry, comparison_key)
            comparison_slug ==
                IF doc_slug # "" THEN doc_slug
                ELSE generate_comparison_slug(tool_copy.name, <<>>, tool1.slug, tool2.slug)
            r == ensure_unique_slug(comparison_slug,
                                    discard_current(used_slugs, current_slug))
        IN  /\ pc = "comparisons"
            /\ tool1_name # tool2_name
            /\ comp_key \notin DOMAIN tool_copy.comparisons
            /\ comparisons_read < MaxComparisons
            /\ used_slugs' = r.existing
            /\ registry' = register_comparison_slug(registry, comparison_key, r.ret,
                                                    participants, now)
            /\ tool_copy' = [tool_copy EXCEPT !.comparisons =
                                (comp_key :> [slug |-> r.ret]) @@ tool_copy.comparisons]
            /\ now' = now + 1
            /\ UNCHANGED <<aux_vars, score_vars, tier_vars, last, kind, dry_run, pc, stored_registry, stored_kind, stored_tools,
                           tools_data, generated_count>>

\* migrate_dataset flushing the registry at the end of every tool's iteration
MigrateToolDone_flushing ==
    /\ pc = "comparisons"
    /\ tools_data' = Append(tools_data, tool_copy)
    /\ tool_copy' = NoTool
    /\ pc' = "loop"
    /\ stored_registry' = registry
    /\ stored_kind' = "object"
    /\ UNCHANGED <<aux_vars, score_vars, tier_vars, registry, used_slugs, now, last, kind, dry_run,
                   stored_tools, generated_count>>

\* migrate_dataset lines 179-180: the tool's iteration ends.
MigrateToolDone ==
    /\ pc = "comparisons"
    /\ tools_data' = Append(tools_data, tool_copy)
    /\ tool_copy' = NoTool
    /\ pc' = "loop"
    /\ UNCHANGED <<aux_vars, score_vars, tier_vars, registry, used_slugs, now, last, kind, dry_run, stored_registry, stored_kind,
                   stored_tools, generated_count>>

\* _store_comparison_in_tools lines 391-415: the tools list with the
\* comparison stored on every tool one of the two names matches, or on the
\* first tool when none does.
store_on_tools(tools, tool1_name, tool2_name, comparison_key, payload) ==
    LET matches(tool) ==
            \/ tool.name = tool1_name
            \/ tool.name = tool2_name
            \/ IsSubstring(NameLower(tool1_name), NameLower(tool.name))
            \/ IsSubstring(NameLower(tool2_name), NameLower(tool.name))
        put(tool) == [tool EXCEPT !.comparisons =
                         (comparison_key :> payload) @@ tool.comparisons]
        tools_updated == Cardinality({i \in DOMAIN tools : matches(tools[i])})
    IN  [i \in DOMAIN tools |->
            IF matches(tools[i]) \/ (tools_updated = 0 /\ i = 1)
            THEN put(tools[i]) ELSE tools[i]]

\* _store_comparison_in_tools line 365: the key the comparison is stored
\* under on a tool, spaces of the names replaced by underscores.
stored_comparison_key(tool1_name, tool2_name) ==
    NameKey(tool1_name) \o "_vs_" \o NameKey(tool2_name)

\* _store_comparison_in_tools lines 351-362 and 375: the participants of the
\* comparison, a tool found by its name giving its id, a name without a tool
\* standing for itself.
store_participants(tools, tool1_name, tool2_name) ==
    LET tool1_entry == first_named(tools, tool1_name)
        tool2_entry == first_named(tools, tool2_name)
    IN  [tool1 |-> IF tool1_entry # NoTool THEN tool1_entry.id ELSE NameLower(tool1_name),
         tool2 |-> IF tool2_entry # NoTool THEN tool2_entry.id ELSE NameLower(tool2_name)]

\* _store_comparison_in_tools lines 363-364 and 368-373: the slug asked for,
\* comparison["slug"] when the generated content has one (llm_slug # "").
store_base_slug(tools, tool1_name, tool2_name, llm_slug) ==
    LET tool1_entry == first_named(tools, tool1_name)
        tool2_entry == first_named(tools, tool2_name)
        tool1_slug == IF tool1_entry # NoTool /\ tool1_entry.slug # ""
                      THEN tool1_entry.slug
                      ELSE generate_tool_slug(tool1_name, <<>>, <<>>)
        tool2_slug == IF tool2_entry # NoTool /\ tool2_entry.slug # ""
                      THEN tool2_entry.slug
                      ELSE generate_tool_slug(tool2_name, <<>>, <<>>)
    IN  IF llm_slug # "" THEN llm_slug
        ELSE generate_comparison_slug(tool1_name, tool2_name, tool1_slug, tool2_slug)

\* _store_comparison_in_tools lines 376-415, for the participants and the
\* slug asked for.
store_registered(tools, reg, used, tool1_name, tool2_name, t, participants, base_slug) ==
    LET registry_key == participants_key(participants)
        current_slug == current_comparison_slug(reg, registry_key)
        r == ensure_unique_slug(base_slug, discard_current(used, current_slug))
    IN  [registry |-> register_comparison_slug(reg, registry_key, r.ret, participants, t),
         used_slugs |-> r.existing,
         tools |-> store_on_tools(tools, tool1_name, tool2_name,
                                  stored_comparison_key(tool1_name, tool2_name),
                                  [slug |-> r.ret]),
         registry_key |-> registry_key]

\* _store_comparison_in_tools(comparison, tools_data, registry, used_slugs)
\* called at time t, lines 343-415: what it leaves in the registry, the set
\* and the tools list, all three mutated in place.  llm_slug is
\* comparison["slug"], "" when the generated content has none.
_store_comparison_in_tools(tools, reg, used, tool1_name, tool2_name, llm_slug, t) ==
    store_registered(tools, reg, used, tool1_name, tool2_name, t,
                     store_participants(tools, tool1_name, tool2_name),
                     store_base_slug(tools, tool1_name, tool2_name, llm_slug))

\* generate_comparisons lines 450-490 for one opportunity whose comparison
\* was generated.  An opportunity that is skipped or whose generation fails
\* changes nothing.
GenerateStore ==
    \E tool1_name \in Names, tool2_name \in Names, llm_slug \in DocSlugs :
        /\ pc = "loop"
        /\ kind = "generate"
        /\ generated_count < MaxPerRun
        /\ tool1_name # tool2_name
        /\ generated_count' = generated_count + 1
        /\ IF dry_run
           THEN UNCHANGED <<registry, used_slugs, tools_data, now>>
           ELSE \E stored \in {_store_comparison_in_tools(tools_data, registry, used_slugs,
                                                          tool1_name, tool2_name,
                                                          llm_slug, now)} :
                    /\ used_slugs' = stored.used_slugs
                    /\ registry' = stored.registry
                    /\ tools_data' = stored.tools
                    /\ now' = now + 1
        /\ UNCHANGED <<aux_vars, score_vars, tier_vars, last, kind, dry_run, pc, stored_registry, stored_kind, stored_tools, tool_copy>>

\* The loop ends: migrate_dataset lines 182-209, generate_comparisons line 493.
FinishLoop ==
    /\ pc = "loop"
    /\ pc' = IF dry_run \/ (kind = "generate" /\ generated_count = 0)
             THEN "done" ELSE "save_tools"
    /\ UNCHANGED <<aux_vars, score_vars, tier_vars, registry, used_slugs, now, last, kind, dry_run, stored_registry, stored_kind,
                   stored_tools, tools_data, tool_copy, generated_count>>

\* save_tools(tools_doc): migrate_dataset line 211, generate_comparisons line 495
SaveTools ==
    /\ pc = "save_tools"
    /\ stored_tools' = tools_data
    /\ pc' = "save_registry"
    /\ UNCHANGED <<aux_vars, score_vars, tier_vars, registry, used_slugs, now, last, kind, dry_run, stored_registry, stored_kind,
                   tools_data, tool_copy, generated_count>>

\* save_slug_registry(registry): migrate_dataset line 212, generate_comparisons
\* line 496.  put_object stores the document or raises.
SaveRegistry ==
    \E fault \in StoreFaults :
        /\ pc = "save_registry"
        /\ last' = [last EXCEPT !.op = "save_slug_registry", !.slug = fault,
                                !.ret = IF fault = "none" THEN "ok" ELSE fault]
        /\ IF fault = "none"
           THEN /\ stored_registry' = registry
                /\ stored_kind' = "object"
                /\ pc' = "done"
           ELSE /\ pc' = "aborted"
                /\ UNCHANGED <<stored_registry, stored_kind>>
        /\ UNCHANGED <<aux_vars, score_vars, tier_vars, registry, used_slugs, now, kind, dry_run,
                       stored_tools, tools_data, tool_copy, generated_count>>

Next ==
    \/ Load
    \/ MigrateTool
    \/ MigrateComparison
    \/ MigrateToolDone
    \/ GenerateStore
    \/ FinishLoop
    \/ SaveTools
    \/ SaveRegistry

Spec == Init /\ [][Next]_vars

(***************************************************************************)
(* quality_tiers.py: the importance scorer.  A stats map that is absent    *)
(* (None or {}) has present = FALSE; pushed_at is absent, unparsable or    *)
(* the day it names; now is the current day.  A count field (stars,        *)
(* downloads, likes) is a number, absent, null or a text, as its _kind     *)
(* says; the number is read only when the kind is "number".                *)
(***************************************************************************)
HIGH_VALUE_CATEGORIES ==
    <<"language models", "image generation", "code assistants", "chatbots", "agents",
      "developer tools">>
MEDIUM_VALUE_CATEGORIES ==
    <<"audio", "video", "data analysis", "automation", "writing">>
MIN_DESCRIPTION_CHARS_FOR_INDEX == 60

\* c * n for a one-character string c
RECURSIVE Repeat(_, _)
Repeat(c, n) == IF n = 0 THEN "" ELSE c \o Repeat(c, n - 1)

NoGithub == [present |-> FALSE, stars_kind |-> "absent", stars |-> 0, last_commit |-> FALSE,
             pushed_at |-> [kind |-> "absent", day |-> 0]]
NoHf == [present |-> FALSE, downloads_kind |-> "absent", downloads |-> 0,
         downloads_all_time |-> 0, likes_kind |-> "absent", likes |-> 0]
NoExternal == [github_stats |-> NoGithub, huggingface_stats |-> NoHf, traffic_score |-> 0]

\* Lines 207-241: the points for GitHub stars and recent activity.
github_points(github_stats, today) ==
    IF ~github_stats.present THEN 0
    ELSE LET stars == IF github_stats.stars_kind = "number" THEN github_stats.stars ELSE 0
             star_points ==
                 IF stars >= 50000 THEN 35
                 ELSE IF stars >= 20000 THEN 30
                 ELSE IF stars >= 10000 THEN 25
                 ELSE IF stars >= 5000 THEN 20
                 ELSE IF stars >= 1000 THEN 15
                 ELSE IF stars >= 500 THEN 10
                 ELSE IF stars >= 100 THEN 5
                 ELSE 0
             pushed_at == github_stats.pushed_at
             days_ago == today - pushed_at.day
             activity_points ==
                 IF github_stats.last_commit /\ pushed_at.kind = "date"
                 THEN (IF days_ago <= 30 THEN 5 ELSE IF days_ago <= 90 THEN 3 ELSE 0)
                 ELSE 0
         IN  star_points + activity_points

\* Lines 245-267: the points for HuggingFace downloads and likes.
huggingface_points(hf_stats) ==
    IF ~hf_stats.present THEN 0
    ELSE LET downloads == IF hf_stats.downloads_kind = "number" /\ hf_stats.downloads # 0
                          THEN hf_stats.downloads
                          ELSE hf_stats.downloads_all_time
             download_points ==
                 IF downloads >= 10000000 THEN 35
                 ELSE IF downloads >= 1000000 THEN 30
                 ELSE IF downloads >= 500000 THEN 25
                 ELSE IF downloads >= 100000 THEN 20
                 ELSE IF downloads >= 50000 THEN 15
                 ELSE IF downloads >= 10000 THEN 10
                 ELSE IF downloads >= 1000 THEN 5
                 ELSE 0
             likes == IF hf_stats.likes_kind = "number" THEN hf_stats.likes ELSE 0
             like_points == IF likes >= 1000 THEN 5 ELSE IF likes >= 100 THEN 3 ELSE 0
         IN  download_points + like_points

\* Lines 270-287: category popularity.  category is tool["category"].lower();
\* category_scores is a function from categories to points, <<>> for None.
category_points(category, category_scores) ==
    IF category \in DOMAIN category_scores THEN category_scores[category]
    ELSE IF \E i \in DOMAIN HIGH_VALUE_CATEGORIES :
               IsSubstring(HIGH_VALUE_CATEGORIES[i], category) THEN 15
    ELSE IF \E i \in DOMAIN MEDIUM_VALUE_CATEGORIES :
               IsSubstring(MEDIUM_VALUE_CATEGORIES[i], category) THEN 10
    ELSE 5

\* Lines 290-305: description length, URL, tags.
content_points(tool) ==
    (IF Len(tool.description) >= 200 THEN 5
     ELSE IF Len(tool.description) >= 100 THEN 3
     ELSE IF Len(tool.description) >= 50 THEN 1
     ELSE 0)
    + (IF tool.url # "" THEN 2 ELSE 0)
    + (IF tool.tags >= 3 THEN 3 ELSE 0)

\* Lines 308-314: existing enhanced content, and comparisons with it.
enrichment_points(tool) ==
    IF tool.enhanced_content \/ tool.enhanced_content_v2
    THEN 2 + (IF tool.comparisons THEN 3 ELSE 0)
    ELSE 0

\* Lines 208-241: the exception the GitHub block raises, "none" when it runs
\* through.  stars >= 50000 at line 209 is outside any try; the try of lines
\* 231-241 catches ValueError and TypeError, not the AttributeError of
\* pushed_at.replace on a value that is not a string.
github_exception(github_stats) ==
    IF ~github_stats.present THEN "none"
    ELSE IF github_stats.stars_kind \in {"null", "text"} THEN "TypeError"
    ELSE IF github_stats.last_commit /\ github_stats.pushed_at.kind = "number"
    THEN "AttributeError"
    ELSE "none"

\* Lines 246-267: the exception the HuggingFace block raises.  A null
\* downloads is falsy and gives way to downloads_all_time at line 246; a text
\* reaches the comparison of line 247, a null or text likes that of line 264.
huggingface_exception(hf_stats) ==
    IF ~hf_stats.present THEN "none"
    ELSE IF hf_stats.downloads_kind = "text" THEN "TypeError"
    ELSE IF hf_stats.likes_kind \in {"null", "text"} THEN "TypeError"
    ELSE "none"

\* The stats maps the function reads: lines 206 and 244.
github_stats_read(tool, external_data) ==
    IF external_data.github_stats.present THEN external_data.github_stats
    ELSE tool.external_data.github_stats

huggingface_stats_read(tool, external_data) ==
    IF external_data.huggingface_stats.present THEN external_data.huggingface_stats
    ELSE tool.external_data.huggingface_stats

\* The exception that leaves calculate_importance_score, "none" when it
\* returns.
score_exception(tool, external_data) ==
    LET from_github == github_exception(github_stats_read(tool, external_data)) IN
    IF from_github # "none" THEN from_github
    ELSE huggingface_exception(huggingface_stats_read(tool, external_data))

\* The value of score at line 320, before the cap.
uncapped_score(tool, external_data, category_scores, today) ==
    LET github_stats == github_stats_read(tool, external_data)
        hf_stats == huggingface_stats_read(tool, external_data)
    IN  github_points(github_stats, today)
        + huggingface_points(hf_stats)
        + category_points(tool.category, category_scores)
        + content_points(tool)
        + enrichment_points(tool)
        + external_data.traffic_score

\* calculate_importance_score returning the sum itself.
calculate_importance_score_uncapped(tool, external_data, category_scores, today) ==
    uncapped_score(tool, external_data, category_scores, today)

\* calculate_importance_score(tool, external_data, category_scores) on day today
calculate_importance_score(tool, external_data, category_scores, today) ==
    LET score == uncapped_score(tool, external_data, category_scores, today) IN
    IF score < 100 THEN score ELSE 100

(***************************************************************************)
(* Calls of calculate_importance_score.                                    *)
(***************************************************************************)
GithubInputs ==
    {NoGithub}
    \cup {[present |-> TRUE, stars_kind |-> "number", stars |-> st, last_commit |-> TRUE, pushed_at |-> p] :
             st \in {99, 100, 50000},
             p \in {[kind |-> "absent", day |-> 0], [kind |-> "invalid", day |-> 0],
                    [kind |-> "date", day |-> 95], [kind |-> "date", day |-> 40]}}

HfInputs ==
    {NoHf}
    \cup {[present |-> TRUE, downloads_kind |-> "number", downloads |-> d[1],
           downloads_all_time |-> d[2], likes_kind |-> "number", likes |-> l] :
             d \in {<<0, 0>>, <<0, 10000000>>, <<1000, 0>>}, l \in {0, 1000}}

CategoryInputs == {"", "large language models", "other"}
CategoryScoreInputs ==
    {<<>>, [c \in {"other"} |-> 15], [c \in {"other", "large language models"} |-> 5]}

ScoreToolInputs ==
    {[url |-> u, description |-> d, tags |-> tg, category |-> c,
      enhanced_content |-> FALSE, enhanced_content_v2 |-> e, comparisons |-> e,
      external_data |-> [NoExternal EXCEPT !.github_stats = g]] :
        u \in {"", "u"}, d \in {"", Repeat("a", 200)}, tg \in {0, 3},
        c \in CategoryInputs, e \in BOOLEAN,
        g \in {NoGithub, [present |-> TRUE, stars_kind |-> "number", stars |-> 50000, last_commit |-> FALSE,
                          pushed_at |-> [kind |-> "absent", day |-> 0]]}}

ExternalInputs ==
    {[github_stats |-> g, huggingface_stats |-> h, traffic_score |-> t] :
        g \in GithubInputs, h \in HfInputs, t \in {0, 25}}

InitScore ==
    /\ score_args \in {[tool |-> t, external_data |-> e, category_scores |-> cs] :
                          t \in ScoreToolInputs, e \in ExternalInputs,
                          cs \in CategoryScoreInputs}
    /\ score_result = -1
    /\ score_raised = "none"
    /\ now = 100
    /\ PartitionerIdle
    /\ AuxIdle
    /\ registry = DEFAULT_REGISTRY
    /\ used_slugs = {}
    /\ last = NoCall
    /\ kind = "none"
    /\ dry_run = FALSE
    /\ pc = "idle"
    /\ stored_registry = DEFAULT_REGISTRY
    /\ stored_kind = "object"
    /\ stored_tools = <<>>
    /\ tools_data = <<>>
    /\ tool_copy = NoTool
    /\ generated_count = 0

CallScore ==
    /\ score_result = -1
    /\ score_raised = "none"
    /\ score_args # <<>>
    /\ score_raised' = score_exception(score_args.tool, score_args.external_data)
    /\ score_result' = IF score_raised' = "none"
                       THEN calculate_importance_score(score_args.tool,
                                                       score_args.external_data,
                                                       score_args.category_scores, now)
                       ELSE -1
    /\ UNCHANGED <<aux_vars, score_args, now, registry_vars, run_vars, tier_vars>>

NextScore == CallScore

SpecScore == InitScore /\ [][NextScore]_vars

\* C6: calculate_importance_score returns an integer in [0,100] for every
\* tool, external-metrics map and category-score map with non-negative
\* points, also when the buckets add up to more than 100.
C6_ScoreInRange ==
    score_args # <<>> /\ score_result # -1 => score_result \in 0..100

\* The buckets add up to more than 100 and the call returned.
C6_Witness ==
    /\ score_args # <<>>
    /\ score_result = 100
    /\ uncapped_score(score_args.tool, score_args.external_data,
                      score_args.category_scores, now) > 100

(***************************************************************************)
(* quality_tiers.py: the tier partitioner.  Tools are told apart by their  *)
(* position in the input list.                                             *)
(***************************************************************************)
TIER1_MAX_COUNT == 50
TIER2_MAX_COUNT == 150
TIER1_MIN_SCORE == 80

\* is_minimally_indexable measuring the description as stored.
is_minimally_indexable_unstripped(tool) ==
    IF tool.url = "" THEN FALSE
    ELSE IF Len(tool.description) >= MIN_DESCRIPTION_CHARS_FOR_INDEX THEN TRUE
    ELSE tool.enhanced_content \/ tool.enhanced_content_v2

\* is_minimally_indexable(tool)
is_minimally_indexable(tool) ==
    IF tool.url = "" THEN FALSE
    ELSE IF Len(StripChar(tool.description, " ")) >= MIN_DESCRIPTION_CHARS_FOR_INDEX THEN TRUE
    ELSE tool.enhanced_content \/ tool.enhanced_content_v2

\* scored_tools.sort(...) leaving the list as it is.
sort_by_score_desc_unsorted(scored) == scored

\* The sort putting a tool before the earlier tools of the same score.
RECURSIVE sort_by_score_desc_unstable(_)
sort_by_score_desc_unstable(scored) ==
    IF Len(scored) <= 1 THEN scored
    ELSE LET front == sort_by_score_desc_unstable(SubSeq(scored, 1, Len(scored) - 1))
             e == scored[Len(scored)]
             k == Cardinality({i \in DOMAIN front : front[i].score > e.score})
         IN  SubSeq(front, 1, k) \o <<e>> \o SubSeq(front, k + 1, Len(front))

\* scored_tools.sort(key=lambda x: x[1], reverse=True): a stable sort,
\* equal scores keep their order.
RECURSIVE sort_by_score_desc(_)
sort_by_score_desc(scored) ==
    IF Len(scored) <= 1 THEN scored
    ELSE LET front == sort_by_score_desc(SubSeq(scored, 1, Len(scored) - 1))
             e == scored[Len(scored)]
             k == Cardinality({i \in DOMAIN front : front[i].score >= e.score})
         IN  SubSeq(front, 1, k) \o <<e>> \o SubSeq(front, k + 1, Len(front))

\* The tier of the next tool with tier2 taking one tool more than its limit.
tier_of_overfilling(tool, lists, limits) ==
    IF ~is_minimally_indexable(tool) THEN "noindex"
    ELSE IF Len(lists.tier1) < limits.tier1 THEN "tier1"
    ELSE IF Len(lists.tier2) <= limits.tier2 THEN "tier2"
    ELSE "tier3"

\* Lines 371-378: the tier of the next tool, given the lists so far.
tier_of(tool, lists, limits) ==
    IF ~is_minimally_indexable(tool) THEN "noindex"
    ELSE IF Len(lists.tier1) < limits.tier1 THEN "tier1"
    ELSE IF Len(lists.tier2) < limits.tier2 THEN "tier2"
    ELSE "tier3"

\* tiered[tier].append(tool) losing the tools of tier3.
append_to_tier_dropping(lists, tier, tool_index) ==
    IF tier = "tier3" THEN lists
    ELSE [lists EXCEPT ![tier] = Append(@, tool_index)]

\* tiered[tier].append(tool)
append_to_tier(lists, tier, tool_index) ==
    [lists EXCEPT ![tier] = Append(@, tool_index)]

TierToolInputs ==
    LET record(u, d, e, g) ==
            [url |-> u, description |-> d, tags |-> 0, category |-> "other",
             enhanced_content |-> FALSE, enhanced_content_v2 |-> e, comparisons |-> FALSE,
             external_data |-> [NoExternal EXCEPT !.github_stats = g]]
        starred == [present |-> TRUE, stars_kind |-> "number", stars |-> 50000, last_commit |-> FALSE,
                    pushed_at |-> [kind |-> "absent", day |-> 0]]
        contents == {<<" " \o Repeat("a", 59), FALSE>>, <<Repeat("a", 60), FALSE>>,
                     <<Repeat("a", 10), TRUE>>}
    IN  {record("", Repeat("a", 60), FALSE, starred)}
        \cup {record("u", c[1], c[2], g) : c \in contents, g \in {NoGithub, starred}}

TierLists == UNION {[1..n -> TierToolInputs] : n \in 0..MaxTierTools}

\* tier_all_tools(tools): the callers pass no external_data_map and no
\* category_scores.  The shipped capacities are 50 and 150; smaller ones let
\* a list of MaxTierTools tools overflow them.
InitTier ==
    /\ tier_tools \in TierLists
    /\ tier_limits \in [tier1 : (0..MaxCapacity) \cup {TIER1_MAX_COUNT},
                        tier2 : (0..MaxCapacity) \cup {TIER2_MAX_COUNT}]
    /\ scored_tools = <<>>
    /\ tiered = [tier1 |-> <<>>, tier2 |-> <<>>, tier3 |-> <<>>, noindex |-> <<>>]
    /\ tier_marks = <<>>
    /\ tier_pc = "start"
    /\ now = 100
    /\ ScorerIdle
    /\ AuxIdle
    /\ registry = DEFAULT_REGISTRY
    /\ used_slugs = {}
    /\ last = NoCall
    /\ kind = "none"
    /\ dry_run = FALSE
    /\ pc = "idle"
    /\ stored_registry = DEFAULT_REGISTRY
    /\ stored_kind = "object"
    /\ stored_tools = <<>>
    /\ tools_data = <<>>
    /\ tool_copy = NoTool
    /\ generated_count = 0

\* Lines 346-363: score every tool and sort.
TierScoreAndSort ==
    /\ tier_pc = "start"
    /\ scored_tools' = sort_by_score_desc(
                          [i \in DOMAIN tier_tools |->
                              [tool |-> i,
                               score |-> calculate_importance_score(tier_tools[i], NoExternal,
                                                                    <<>>, now)]])
    /\ tier_pc' = "assign"
    /\ UNCHANGED <<aux_vars, tier_tools, tier_limits, tiered, tier_marks, now, registry_vars, run_vars,
                   score_vars>>

\* The tools the loop has been through: those carrying _tier.
tier_assigned == Cardinality(DOMAIN tier_marks)

\* Lines 370-384: one iteration of the assignment loop.
TierAssign ==
    /\ tier_pc = "assign"
    /\ tier_assigned < Len(scored_tools)
    /\ LET next == scored_tools[tier_assigned + 1]
           tier == tier_of(tier_tools[next.tool], tiered, tier_limits)
       IN  /\ tiered' = append_to_tier(tiered, tier, next.tool)
           /\ tier_marks' = (next.tool :> [_importance_score |-> next.score, _tier |-> tier])
                            @@ tier_marks
    /\ UNCHANGED <<aux_vars, tier_tools, tier_limits, scored_tools, tier_pc, now, registry_vars,
                   run_vars, score_vars>>

\* Line 394: return tiered.
TierReturn ==
    /\ tier_pc = "assign"
    /\ tier_assigned = Len(scored_tools)
    /\ tier_pc' = "done"
    /\ UNCHANGED <<aux_vars, tier_tools, tier_limits, scored_tools, tiered, tier_marks, now,
                   registry_vars, run_vars, score_vars>>

NextTier ==
    \/ TierScoreAndSort
    \/ TierAssign
    \/ TierReturn

SpecTier == InitTier /\ [][NextTier]_vars

(***************************************************************************)
(* Properties of the partition.                                            *)
(***************************************************************************)
TierNames == {"tier1", "tier2", "tier3", "noindex"}

InTier(tier) == {tiered[tier][k] : k \in DOMAIN tiered[tier]}

ScoreOf(i) == calculate_importance_score(tier_tools[i], NoExternal, <<>>, now)

\* The gate as the claim words it: no URL, or a description shorter than 60
\* characters after stripping and no enhanced content.
FailsGate(tool) ==
    \/ tool.url = ""
    \/ /\ Len(StripChar(tool.description, " ")) < 60
       /\ ~(tool.enhanced_content \/ tool.enhanced_content_v2)

Indexable == {i \in DOMAIN tier_tools : ~FailsGate(tier_tools[i])}

Min2(a, b) == IF a < b THEN a ELSE b

\* C3: tier_all_tools returns a partition of its input: every tool is in
\* exactly one of the four lists, once, and the lengths add up to the
\* number of tools.
C3_TiersPartitionInput ==
    tier_pc = "done" =>
        /\ \A i \in DOMAIN tier_tools :
              Cardinality({<<t, k>> \in UNION {{t2} \X DOMAIN tiered[t2] : t2 \in TierNames} :
                              tiered[t][k] = i}) = 1
        /\ Len(tiered.tier1) + Len(tiered.tier2) + Len(tiered.tier3) + Len(tiered.noindex)
              = Len(tier_tools)

\* All four lists are filled.
C3_Witness ==
    /\ tier_pc = "done"
    /\ \A t \in TierNames : Len(tiered[t]) > 0

\* C4: the tools that fail the indexability gate are exactly the tools of
\* the noindex list, whatever their score and the room left in tier1 and
\* tier2.
C4_GateDecidesNoindex ==
    tier_pc = "done" =>
        \A i \in DOMAIN tier_tools : FailsGate(tier_tools[i]) <=> i \in InTier("noindex")

\* A tool in noindex outscores a tool of tier1 while tier1 and tier2 have room.
C4_Witness ==
    /\ tier_pc = "done"
    /\ Len(tiered.tier1) < tier_limits.tier1
    /\ Len(tiered.tier2) < tier_limits.tier2
    /\ \E i \in InTier("noindex"), j \in InTier("tier1") : ScoreOf(i) > ScoreOf(j)

\* C5: tier1 holds exactly min(capacity, number of indexable tools) tools and
\* no indexable tool outside tier1 scores strictly higher than one inside.
C5_Tier1FilledByRank ==
    tier_pc = "done" =>
        /\ Len(tiered.tier1) = Min2(tier_limits.tier1, Cardinality(Indexable))
        /\ \A i \in InTier("tier1"), j \in Indexable \ InTier("tier1") :
              ScoreOf(j) <= ScoreOf(i)

\* tier1 is full of tools below its nominal min_score and tools were left out.
C5_Witness ==
    /\ tier_pc = "done"
    /\ tier_limits.tier1 > 0
    /\ Len(tiered.tier1) = tier_limits.tier1
    /\ \A i \in DOMAIN tier_tools : ScoreOf(i) < TIER1_MIN_SCORE
    /\ \E j \in Indexable \ InTier("tier1") : \E i \in InTier("tier1") : ScoreOf(j) < ScoreOf(i)

(***************************************************************************)
(* Properties of the registry.                                             *)
(***************************************************************************)
\* The subjects of a registry: tool ids and comparison keys, by section.
Subjects(reg) ==
    {<<"tools", k>> : k \in DOMAIN reg.tools}
    \cup {<<"comparisons", k>> : k \in DOMAIN reg.comparisons}

EntryOf(reg, subject) ==
    IF subject[1] = "tools" THEN reg.tools[subject[2]] ELSE reg.comparisons[subject[2]]

CurrentOf(reg, subject) == EntryOf(reg, subject).current

HistorySlugs(reg, subject) ==
    LET history == EntryOf(reg, subject).history IN
    {history[i].slug : i \in DOMAIN history}

UniqueCurrent(reg) ==
    \A s \in Subjects(reg), t \in Subjects(reg) :
        s # t => CurrentOf(reg, s) # CurrentOf(reg, t)

\* C1: during and after a run of migrate_dataset or generate_comparisons
\* started from a registry without shared current slugs, no two distinct
\* subjects (tool ids and comparison keys together) have the same current
\* slug, in the run's registry and in the stored one.
C1_UniqueCurrentSlugs ==
    UniqueCurrent(registry) /\ UniqueCurrent(stored_registry)

\* A finished, saved run in which a collision was resolved by a suffix and
\* the registry holds tools and a comparison.
C1_Witness ==
    /\ pc = "done"
    /\ stored_registry = registry
    /\ DOMAIN registry.comparisons # {}
    /\ \E a \in DOMAIN registry.tools, b \in DOMAIN registry.tools :
          registry.tools[a].current = "x" /\ registry.tools[b].current = "x-2"

\* C2: a slug in the history of subject S is never the current slug of a
\* different subject T, in any state of a run.
C2_RetiredSlugNeverReassigned ==
    \A s \in Subjects(registry), t \in Subjects(registry) :
        s # t => CurrentOf(registry, t) \notin HistorySlugs(registry, s)

\* C7: a call of register_tool_slug or register_comparison_slug that repeats
\* the call before it (same key, same slug) leaves the registry as that
\* first call left it.
C7_RegisterIdempotent ==
    (last.repeated /\ last.op \in {"register_tool_slug", "register_comparison_slug"})
        => registry = last.registry_before

\* A repeated registration of a subject that has been renamed before.
C7_Witness ==
    /\ last.repeated
    /\ last.op = "register_tool_slug"
    /\ Len(registry.tools[last.key].history) > 0

\* The last call renamed an existing subject.
Renamed ==
    /\ last.op \in {"register_tool_slug", "register_comparison_slug"}
    /\ LET section == IF last.op = "register_tool_slug"
                      THEN last.registry_before.tools
                      ELSE last.registry_before.comparisons
       IN  last.key \in DOMAIN section /\ section[last.key].current # last.slug

LastSubject ==
    <<IF last.op = "register_tool_slug" THEN "tools" ELSE "comparisons", last.key>>

C9_HistoryAppendOnly ==
    [][\A s \in Subjects(registry) :
          /\ s \in Subjects(registry')
          /\ LET old == EntryOf(registry, s).history
                 new == EntryOf(registry', s).history
             IN  Len(old) <= Len(new) /\ SubSeq(new, 1, Len(old)) = old]_vars

\* A subject with two history entries.
C9_Witness ==
    \E s \in Subjects(registry) : Len(EntryOf(registry, s).history) = 2

\* C10: ensure_unique_slug returns slug when it is free and otherwise slug-k
\* for the least k >= 2 with slug-k free; the result was not in the set, and
\* the set becomes exactly the old set plus the result.
C10_EnsureUnique ==
    last.op = "ensure_unique_slug" =>
        LET E == last.existing_before
            suffixed(k) == last.slug \o "-" \o ToString(k)
        IN  /\ last.ret \notin E
            /\ used_slugs = E \cup {last.ret}
            /\ last.slug \notin E => last.ret = last.slug
            /\ last.slug \in E =>
                  \E k \in 2..(Cardinality(E) + 2) :
                      /\ last.ret = suffixed(k)
                      /\ \A j \in 2..(k - 1) : suffixed(j) \in E

\* The call had to pass over a taken suffix.
C10_Witness ==
    /\ last.op = "ensure_unique_slug"
    /\ last.slug = "x"
    /\ last.ret = "x-3"

(***************************************************************************)
(* Properties of the comparison key.                                       *)
(***************************************************************************)
Swapped(participants) ==
    [tool1 |-> participants.tool2, tool2 |-> participants.tool1]

\* C11: the registry key of a comparison does not depend on the order of its
\* two participants: every comparison a run has registered sits under the
\* key computed from its participants and under the key computed from them
\* in the other order, so one pair of tools never has two entries.
C11_KeyOrderIndependent ==
    /\ \A key \in DOMAIN registry.comparisons :
          LET p == registry.comparisons[key].participants IN
          /\ key = participants_key(p)
          /\ key = participants_key(Swapped(p))
    /\ \A k1 \in DOMAIN registry.comparisons, k2 \in DOMAIN registry.comparisons :
          LET p1 == registry.comparisons[k1].participants
              p2 == registry.comparisons[k2].participants
          IN  {p1.tool1, p1.tool2} = {p2.tool1, p2.tool2} => k1 = k2

\* A run has registered a comparison whose first participant sorts after its
\* second one.
C11_Witness ==
    \E key \in DOMAIN registry.comparisons :
        LET p == registry.comparisons[key].participants IN
        /\ key \notin DOMAIN stored_registry.comparisons
        /\ StrLess(p.tool2, p.tool1)
        /\ kind \in {"migrate", "generate"}

(***************************************************************************)
(* quality_tiers.py: the freshness rule.  The clock counts days.  The      *)
(* value of enhanced_at_v2 is absent (no key, or None), empty (""), falsy  *)
(* (0, false, [] or {}), nonstring (any other value that is not a string), *)
(* malformed (a string fromisoformat rejects), naive (a timestamp without  *)
(* UTC offset) or aware (a timestamp with one, of the day it names).       *)
(***************************************************************************)
MaxDay == 32         \* the days the clock and the timestamps range over

TIER1_REFRESH_DAYS == 7
TIER2_REFRESH_DAYS == 14
TIER3_REFRESH_DAYS == 30
NOINDEX_REFRESH_DAYS == 0

\* tool.get("_tier", ...) of a tool without the key
MissingKey == "<missing>"

\* TIERS[name], of which refresh_days and noindex are kept
TIERS(name) ==
    CASE name = "tier1" -> [name |-> "tier1", refresh_days |-> TIER1_REFRESH_DAYS,
                            noindex |-> FALSE]
      [] name = "tier2" -> [name |-> "tier2", refresh_days |-> TIER2_REFRESH_DAYS,
                            noindex |-> FALSE]
      [] name = "tier3" -> [name |-> "tier3", refresh_days |-> TIER3_REFRESH_DAYS,
                            noindex |-> FALSE]
      [] name = "noindex" -> [name |-> "noindex", refresh_days |-> NOINDEX_REFRESH_DAYS,
                              noindex |-> TRUE]

\* get_tier_config(tier_name) = TIERS.get(tier_name, TIERS["noindex"])
get_tier_config(tier_name) ==
    IF tier_name \in {"tier1", "tier2", "tier3", "noindex"}
    THEN TIERS(tier_name) ELSE TIERS("noindex")

\* tier or tool.get("_tier", "tier3")
refresh_tier(tool, tier) ==
    IF tier # "" THEN tier
    ELSE IF tool._tier = MissingKey THEN "tier3" ELSE tool._tier

\* should_refresh reading the timestamp before the tier's interval.
should_refresh_timestamp_first(tool, tier, today) ==
    LET config == get_tier_config(refresh_tier(tool, tier))
        enhanced_at == tool.enhanced_at_v2
    IN  IF enhanced_at.kind \in {"absent", "empty", "falsy"} THEN "True"
        ELSE IF enhanced_at.kind = "nonstring" THEN "AttributeError"
        ELSE IF enhanced_at.kind \in {"malformed", "naive"} THEN "True"
        ELSE IF config.refresh_days = 0 THEN "False"
        ELSE IF today - enhanced_at.day >= config.refresh_days THEN "True" ELSE "False"

\* should_refresh with a strict comparison of the elapsed time.
should_refresh_strict(tool, tier, today) ==
    LET config == get_tier_config(refresh_tier(tool, tier))
        enhanced_at == tool.enhanced_at_v2
    IN  IF config.refresh_days = 0 THEN "False"
        ELSE IF enhanced_at.kind \in {"absent", "empty", "falsy"} THEN "True"
        ELSE IF enhanced_at.kind = "nonstring" THEN "AttributeError"
        ELSE IF enhanced_at.kind \in {"malformed", "naive"} THEN "True"
        ELSE IF today - enhanced_at.day > config.refresh_days THEN "True" ELSE "False"

\* should_refresh(tool, tier) called on day today: "True", "False", or the
\* exception that leaves the function.
\*   line 419: a falsy value returns True;
\*   line 423: enhanced_at.replace raises AttributeError on a value that is
\*             not a string, which the except clause does not name;
\*             fromisoformat raises ValueError on a malformed string;
\*   line 425: an aware datetime minus a naive one raises TypeError.
should_refresh(tool, tier, today) ==
    LET config == get_tier_config(refresh_tier(tool, tier))
        enhanced_at == tool.enhanced_at_v2
    IN  IF config.refresh_days = 0 THEN "False"
        ELSE IF enhanced_at.kind \in {"absent", "empty", "falsy"} THEN "True"
        ELSE IF enhanced_at.kind = "nonstring" THEN "AttributeError"
        ELSE IF enhanced_at.kind \in {"malformed", "naive"} THEN "True"
        ELSE IF today - enhanced_at.day >= config.refresh_days THEN "True" ELSE "False"

(***************************************************************************)
(* Calls of should_refresh.                                                *)
(***************************************************************************)
TimestampInputs ==
    {[kind |-> k, day |-> 0] :
        k \in {"absent", "empty", "falsy", "nonstring", "malformed", "naive"}}
    \cup {[kind |-> "aware", day |-> d] : d \in 0..MaxDay}

RefreshToolInputs ==
    {[_tier |-> t, enhanced_at_v2 |-> e] :
        t \in {MissingKey, "", "tier1", "noindex"}, e \in TimestampInputs}

TierArgInputs == {"", "tier1", "tier2", "tier3", "noindex", "tier9"}

InitRefresh ==
    /\ refresh_args \in [tool : RefreshToolInputs, tier : TierArgInputs]
    /\ refresh_result = "none"
    /\ now \in 0..MaxDay
    /\ MoreIdle
    /\ EnhancerIdle
    /\ TwoRunsIdle
    /\ ClassifierIdle
    /\ ScorerIdle
    /\ PartitionerIdle
    /\ registry = DEFAULT_REGISTRY
    /\ used_slugs = {}
    /\ last = NoCall
    /\ kind = "none"
    /\ dry_run = FALSE
    /\ pc = "idle"
    /\ stored_registry = DEFAULT_REGISTRY
    /\ stored_kind = "object"
    /\ stored_tools = <<>>
    /\ tools_data = <<>>
    /\ tool_copy = NoTool
    /\ generated_count = 0

CallShouldRefresh ==
    /\ refresh_result = "none"
    /\ refresh_args # <<>>
    /\ refresh_result' = should_refresh(refresh_args.tool, refresh_args.tier, now)
    /\ UNCHANGED <<refresh_args, now, registry_vars, run_vars, score_vars, tier_vars,
                   enhance_vars, conc_vars, classify_vars, more_vars>>

NextRefresh == CallShouldRefresh

SpecRefresh == InitRefresh /\ [][NextRefresh]_vars

\* The configuration and the timestamp of the call made.
RefreshConfig == get_tier_config(refresh_tier(refresh_args.tool, refresh_args.tier))

RefreshTimestamp == refresh_args.tool.enhanced_at_v2

\* C12: for a tier whose refresh interval is zero should_refresh returns
\* False for every tool, whether its timestamp is missing, malformed,
\* recent or arbitrarily old.
C12_ZeroIntervalNeverStale ==
    (refresh_result # "none" /\ RefreshConfig.refresh_days = 0)
        => refresh_result = "False"

\* The noindex tier was asked about a tool enhanced more than 30 days ago.
C12_Witness ==
    /\ refresh_result = "False"
    /\ refresh_args.tier = "noindex"
    /\ RefreshTimestamp.kind = "aware"
    /\ now - RefreshTimestamp.day > TIER3_REFRESH_DAYS

\* C13: for a tier with a positive refresh interval should_refresh returns
\* True, and neither raises nor returns False, whenever the timestamp is
\* absent, empty, or present but not parsable as a timestamp.
C13_UnusableTimestampIsStale ==
    (/\ refresh_result # "none"
     /\ RefreshConfig.refresh_days > 0
     /\ RefreshTimestamp.kind \in {"absent", "empty", "falsy", "nonstring", "malformed"})
        => refresh_result = "True"

\* C14: for a tier with a positive refresh interval d and a tool with a
\* valid timestamp t, should_refresh at time now returns True exactly when
\* now - t >= d and False exactly when now - t < d.
C14_StaleFromTheInterval ==
    (/\ refresh_result # "none"
     /\ RefreshConfig.refresh_days > 0
     /\ RefreshTimestamp.kind = "aware")
        => /\ refresh_result = "True" <=> now - RefreshTimestamp.day >= RefreshConfig.refresh_days
           /\ refresh_result = "False" <=> now - RefreshTimestamp.day < RefreshConfig.refresh_days

\* The boundary: exactly the interval has elapsed and the tool is stale.
C14_Witness ==
    /\ refresh_result = "True"
    /\ RefreshTimestamp.kind = "aware"
    /\ RefreshConfig.refresh_days > 0
    /\ now - RefreshTimestamp.day = RefreshConfig.refresh_days

(***************************************************************************)
(* content_enhancer_v2.py: enhance_tools_v2, run again and again on one    *)
(* tools document while the days pass.  Of the counters the run keeps,     *)
(* updated_count decides what it does; skipped_count and failed_count are  *)
(* read off enh_log.  A tool record carries _enhanced_on, the day a run    *)
(* last stored content on it (-1: never), which the code does not have.    *)
(***************************************************************************)
MaxEnhTools == 1     \* tools in the document
MaxEnhDay == 8       \* the last day of the clock

\* datetime.now() without a time zone
stamp_naive(today) == [kind |-> "naive", day |-> today]

\* datetime.now(timezone.utc).isoformat()
stamp(today) == [kind |-> "aware", day |-> today]

\* Lines 370-384 of tier_all_tools over the whole sorted list.
RECURSIVE assign_all(_, _, _, _)
assign_all(scored, tools, lists, limits) ==
    IF Len(scored) = 0 THEN lists
    ELSE LET next == Head(scored)
             tier == tier_of(tools[next.tool], lists, limits)
         IN  assign_all(Tail(scored), tools, append_to_tier(lists, tier, next.tool), limits)

\* tier_all_tools(tools): the four lists, tools by position.
tier_all_tools(tools, limits, today) ==
    assign_all(sort_by_score_desc(
                   [i \in DOMAIN tools |->
                       [tool |-> i,
                        score |-> calculate_importance_score(tools[i], NoExternal, <<>>,
                                                             today)]]),
               tools,
               [tier1 |-> <<>>, tier2 |-> <<>>, tier3 |-> <<>>, noindex |-> <<>>],
               limits)

\* tool["_tier"] as tier_all_tools sets it
tier_set_on(lists, i) ==
    CHOOSE t \in {"tier1", "tier2", "tier3", "noindex"} :
        \E k \in DOMAIN lists[t] : lists[t][k] = i

\* Lines 526-529: the tools to process.
target_tools(lists, target_tier) ==
    IF target_tier = "all" THEN lists.tier1 \o lists.tier2 \o lists.tier3
    ELSE IF target_tier \in {"tier1", "tier2", "tier3", "noindex"} THEN lists[target_tier]
    ELSE <<>>

\* The freshness test of line 545 without the force flag.
skipped_as_fresh_unforced(force, tool, tier, today) ==
    should_refresh(tool, tier, today) = "False"

\* Line 545: not force and not should_refresh(tool, tier)
skipped_as_fresh(force, tool, tier, today) ==
    ~force /\ should_refresh(tool, tier, today) = "False"

EnhToolInputs ==
    LET record(u, e) ==
            [url |-> u, description |-> Repeat("a", 60), tags |-> 0, category |-> "other",
             enhanced_content |-> FALSE, enhanced_content_v2 |-> e.kind # "absent",
             comparisons |-> FALSE, external_data |-> NoExternal,
             enhanced_at_v2 |-> e, _tier |-> MissingKey, _enhanced_on |-> -1]
    IN  {record("u", [kind |-> "absent", day |-> 0]),
         record("u", [kind |-> "aware", day |-> 0]),
         record("u", [kind |-> "nonstring", day |-> 0]),
         record("", [kind |-> "absent", day |-> 0])}

EnhDocs == UNION {[1..n -> EnhToolInputs] : n \in 0..MaxEnhTools}

FlagInputs ==
    [max_per_run : {1, MaxEnhTools}, target_tier : {"all", "tier1", "noindex"},
     dry_run : BOOLEAN, force : BOOLEAN]

InitEnhance ==
    /\ tools_json \in {"object", "missing"}
    /\ enh_stored \in (IF tools_json = "missing" THEN {<<>>} ELSE EnhDocs)
    /\ enh_tools = <<>>
    /\ enh_flags = <<>>
    /\ enh_pc = "idle"
    /\ enh_target = <<>>
    /\ enh_pos = 0
    /\ enh_updated = 0
    /\ enh_log = <<>>
    /\ now = 1
    /\ tier_tools = <<>>
    /\ tier_limits = [tier1 |-> TIER1_MAX_COUNT, tier2 |-> TIER2_MAX_COUNT]
    /\ scored_tools = <<>>
    /\ tiered = [tier1 |-> <<>>, tier2 |-> <<>>, tier3 |-> <<>>, noindex |-> <<>>]
    /\ tier_marks = <<>>
    /\ tier_pc = "idle"
    /\ SlugGeneratorIdle
    /\ CategoryScorerIdle
    /\ FreshnessIdle
    /\ RefreshIdle
    /\ TwoRunsIdle
    /\ ClassifierIdle
    /\ ScorerIdle
    /\ registry = DEFAULT_REGISTRY
    /\ used_slugs = {}
    /\ last = NoCall
    /\ kind = "none"
    /\ dry_run = FALSE
    /\ pc = "idle"
    /\ stored_registry = DEFAULT_REGISTRY
    /\ stored_kind = "object"
    /\ stored_tools = <<>>
    /\ tools_data = <<>>
    /\ tool_copy = NoTool
    /\ generated_count = 0

enhance_others == <<refresh_vars, conc_vars, classify_vars, registry_vars, run_vars,
                    score_vars, tier_vars, more_vars>>

\* A day passes.
Tick ==
    /\ enh_pc # "off"
    /\ now < MaxEnhDay
    /\ now' = now + 1
    /\ UNCHANGED <<enhance_vars, enhance_others>>

\* Lines 510-535: a run starts, loads the document and tiers its tools.
EnhStart ==
    \E lists \in {tier_all_tools(enh_stored, tier_limits, now)}, flags \in FlagInputs :
        /\ enh_pc \in {"idle", "done", "aborted"}
        /\ enh_flags' = flags
        /\ enh_tools' = [i \in DOMAIN enh_stored |->
                            [enh_stored[i] EXCEPT !._tier = tier_set_on(lists, i)]]
        /\ enh_target' = target_tools(lists, flags.target_tier)
        /\ enh_pos' = 1
        /\ enh_updated' = 0
        /\ enh_log' = <<>>
        /\ enh_pc' = "loop"
        /\ tools_json' = load_tools(tools_json).stored
        /\ UNCHANGED <<enh_stored, now, refresh_vars, conc_vars, classify_vars, registry_vars,
                       run_vars, score_vars, tier_vars, slug_vars, traffic_vars, fresh_vars>>

\* Lines 537-573: one iteration of the loop.  enhance_tool_v2 returns
\* content, returns None or raises.
EnhStep ==
    /\ enh_pc = "loop"
    /\ enh_pos <= Len(enh_target)
    /\ enh_updated < enh_flags.max_per_run
    /\ LET i == enh_target[enh_pos]
           tool == enh_tools[i]
           tier == IF tool._tier = MissingKey THEN "tier3" ELSE tool._tier
           entry(result) == [result |-> result, tier |-> tier, at |-> now,
                             prev |-> tool.enhanced_at_v2, prev_on |-> tool._enhanced_on]
       IN  IF ~enh_flags.force /\ should_refresh(tool, tier, now) = "AttributeError"
           THEN /\ enh_pc' = "aborted"
                /\ UNCHANGED <<enh_tools, enh_pos, enh_updated, enh_log>>
           ELSE IF skipped_as_fresh(enh_flags.force, tool, tier, now)
           THEN /\ enh_log' = (i :> entry("skipped_fresh")) @@ enh_log
                /\ enh_pos' = enh_pos + 1
                /\ UNCHANGED <<enh_tools, enh_updated, enh_pc>>
           ELSE IF get_tier_config(tier).noindex
           THEN /\ enh_log' = (i :> entry("skipped_noindex")) @@ enh_log
                /\ enh_pos' = enh_pos + 1
                /\ UNCHANGED <<enh_tools, enh_updated, enh_pc>>
           ELSE \E enhanced \in {"content", "none", "raises"} :
                    /\ enh_pos' = enh_pos + 1
                    /\ enh_pc' = enh_pc
                    /\ IF enhanced = "content"
                       THEN /\ enh_tools' = [enh_tools EXCEPT ![i] =
                                                [@ EXCEPT !.enhanced_content_v2 = TRUE,
                                                          !.enhanced_at_v2 = stamp(now),
                                                          !._enhanced_on = now]]
                            /\ enh_updated' = enh_updated + 1
                            /\ enh_log' = (i :> entry("updated")) @@ enh_log
                       ELSE /\ enh_log' = (i :> entry("failed")) @@ enh_log
                            /\ UNCHANGED <<enh_tools, enh_updated>>
    /\ UNCHANGED <<enh_stored, enh_flags, enh_target, now, enhance_others>>

\* Lines 538-539 and 575-581: the loop ends and the document is saved when
\* something was updated and the run is not a dry run.
EnhFinish ==
    /\ enh_pc = "loop"
    /\ enh_pos > Len(enh_target) \/ enh_updated >= enh_flags.max_per_run
    /\ enh_stored' = IF enh_updated > 0 /\ ~enh_flags.dry_run THEN enh_tools ELSE enh_stored
    /\ enh_pc' = "done"
    /\ UNCHANGED <<enh_tools, enh_flags, enh_target, enh_pos, enh_updated, enh_log, now,
                   enhance_others>>

NextEnhance ==
    \/ Tick
    \/ EnhStart
    \/ EnhStep
    \/ EnhFinish

SpecEnhance == InitEnhance /\ [][NextEnhance]_vars

PositiveTiers == {t \in {"tier1", "tier2", "tier3"} : TIERS(t).refresh_days > 0}

\* The tools the run holds and the tools of the stored document.
EnhKnownTools ==
    {enh_tools[i] : i \in DOMAIN enh_tools} \cup {enh_stored[i] : i \in DOMAIN enh_stored}

\* C15: once enhance_tools_v2 has stored content and the timestamp on a tool,
\* should_refresh is False for it in every tier with a positive interval
\* until that interval has elapsed, and no run without force regenerates
\* the tool before then.
C15_FreshAfterEnhancement ==
    /\ \A tool \in EnhKnownTools, tier \in PositiveTiers :
          (tool._enhanced_on >= 0 /\ now - tool._enhanced_on < TIERS(tier).refresh_days)
              => should_refresh(tool, tier, now) = "False"
    /\ \A i \in DOMAIN enh_log :
          (enh_log[i].result = "updated" /\ ~enh_flags.force /\ enh_log[i].prev_on >= 0)
              => enh_log[i].at - enh_log[i].prev_on >= get_tier_config(enh_log[i].tier).refresh_days

\* A run without force has skipped a tool that an earlier run enhanced and
\* saved.
C15_Witness ==
    \E i \in DOMAIN enh_log :
        /\ enh_log[i].result = "skipped_fresh"
        /\ enh_log[i].prev_on >= 0
        /\ enh_stored[i]._enhanced_on >= 0
        /\ ~enh_flags.force

\* C16: with force set no entry the run considers is skipped as fresh,
\* whatever its tier's interval and its timestamp.
C16_ForceNeverSkipsAsFresh ==
    (enh_pc # "off" /\ enh_flags # <<>> /\ enh_flags.force)
        => /\ \A i \in DOMAIN enh_log : enh_log[i].result # "skipped_fresh"
           /\ enh_pc # "aborted"

\* Under force a tool enhanced less than its interval ago was regenerated.
C16_Witness ==
    /\ enh_flags # <<>>
    /\ enh_flags.force
    /\ \E i \in DOMAIN enh_log :
          /\ enh_log[i].result = "updated"
          /\ enh_log[i].prev.kind = "aware"
          /\ enh_log[i].at - enh_log[i].prev.day < get_tier_config(enh_log[i].tier).refresh_days

\* Under force a tool of the noindex tier got past the freshness test and
\* was left out by the noindex test of line 552.
ForcedNoindexSkipped ==
    /\ enh_flags # <<>>
    /\ enh_flags.force
    /\ \E i \in DOMAIN enh_log : enh_log[i].result = "skipped_noindex"

(***************************************************************************)
(* Properties of a run's use of the store.                                 *)
(***************************************************************************)
\* The registry document as the run found it.
PreRunRegistry == last.registry_before

\* The run has loaded the registry and has not completed its write.
BeforeTheWrite ==
    \/ pc \in {"loop", "comparisons", "save_tools", "save_registry"}
    \/ pc = "aborted" /\ last.op = "save_slug_registry"
    \/ pc = "done" /\ last.op = "load_slug_registry"

\* C17: within one run the registry is loaded once, every registration is
\* applied to the copy in memory, and the document is written at most
\* once, after the last registration; wherever the run stops before that
\* write, the stored document is the one the run found.
C17_RegistryFlushedOnceAtTheEnd ==
    /\ [](BeforeTheWrite => stored_registry = PreRunRegistry)
    /\ [][/\ stored_registry' # stored_registry
                => pc = "save_registry" /\ pc' = "done" /\ stored_registry' = registry
          /\ registry' # registry => pc \in {"start", "loop", "comparisons"}
          /\ pc # "start" => last'.registry_before = last.registry_before
          /\ pc \in {"done", "aborted"} => UNCHANGED <<registry, stored_registry, pc>>]_vars

\* Registrations are waiting in memory for the write at the end.
C17_Witness ==
    /\ pc \in {"save_tools", "save_registry"}
    /\ registry # stored_registry
    /\ stored_registry = PreRunRegistry

\* C18: a failure to load the registry document (a storage error other than
\* a missing document, a payload that is not a JSON object) or to persist
\* it leaves the run through the exception; only a missing document yields
\* a fresh registry with empty tool and comparison maps.
C18_StoreFailuresPropagate ==
    /\ (last.op = "load_slug_registry"
        /\ (last.slug # "none" \/ last.key \in {"not_json", "not_object"}))
          => /\ pc = "aborted"
             /\ registry = DEFAULT_REGISTRY
             /\ used_slugs = {}
             /\ last.ret \notin {"ok", "NoSuchKey"}
    /\ (last.op = "load_slug_registry" /\ pc # "aborted")
          => \/ last.key = "object" /\ last.ret = "ok"
             \/ last.key = "missing" /\ last.ret = "NoSuchKey"
                /\ PreRunRegistry = DEFAULT_REGISTRY
    /\ (last.op = "save_slug_registry" /\ last.slug # "none")
          => pc = "aborted" /\ stored_registry = PreRunRegistry
    /\ (last.op = "save_slug_registry" /\ last.slug = "none")
          => pc = "done" /\ stored_registry = registry

\* A run has stopped on a registry document that is not a JSON object.
C18_Witness ==
    /\ pc = "aborted"
    /\ last.op = "load_slug_registry"
    /\ last.key = "not_object"
    /\ last.slug = "none"
    /\ last.ret = "ValueError"

(***************************************************************************)
(* Two runs of generate_comparisons on one store.  Of a run the model      *)
(* keeps its registry cycle: load_slug_registry (line 426), the            *)
(* registrations of _store_comparison_in_tools (lines 375-389), and        *)
(* save_slug_registry (line 496), which nothing in the code guards with a  *)
(* lock or a version check.                                                *)
(***************************************************************************)
MaxRegistrations == 2    \* comparisons one run stores

Runs == {"run1", "run2"}

BaseSlugs == {"x", "y"}

two_runs_others == <<refresh_vars, enhance_vars, classify_vars, registry_vars, run_vars,
                     score_vars, tier_vars, now, more_vars>>

InitTwoRuns ==
    /\ conc_store \in {DEFAULT_REGISTRY,
                       register_comparison_slug(DEFAULT_REGISTRY, "t1__t2", "x",
                                                [tool1 |-> "t1", tool2 |-> "t2"], 0)}
    /\ conc_registry = [r \in Runs |-> DEFAULT_REGISTRY]
    /\ conc_used = [r \in Runs |-> {}]
    /\ conc_pc = [r \in Runs |-> "start"]
    /\ conc_made = [r \in Runs |-> <<>>]
    /\ conc_overlap = FALSE
    /\ now = 1
    /\ MoreIdle
    /\ RefreshIdle
    /\ EnhancerIdle
    /\ ClassifierIdle
    /\ ScorerIdle
    /\ PartitionerIdle
    /\ registry = DEFAULT_REGISTRY
    /\ used_slugs = {}
    /\ last = NoCall
    /\ kind = "none"
    /\ dry_run = FALSE
    /\ pc = "idle"
    /\ stored_registry = DEFAULT_REGISTRY
    /\ stored_kind = "object"
    /\ stored_tools = <<>>
    /\ tools_data = <<>>
    /\ tool_copy = NoTool
    /\ generated_count = 0

\* generate_comparisons lines 424-432: the run reads the stored document.
RunLoad(r) ==
    /\ conc_pc[r] = "start"
    /\ conc_registry' = [conc_registry EXCEPT ![r] = conc_store]
    /\ conc_used' = [conc_used EXCEPT ![r] = collect_existing_slugs(conc_store)]
    /\ conc_pc' = [conc_pc EXCEPT ![r] = "loop"]
    /\ conc_overlap' = (conc_overlap \/ \E o \in Runs \ {r} : conc_pc[o] = "loop")
    /\ UNCHANGED <<conc_store, conc_made, two_runs_others>>

\* _store_comparison_in_tools lines 375-389 for one generated comparison.
RunRegister(r) ==
    \E participants \in ParticipantInputs, base_slug \in BaseSlugs :
        LET registry_key == participants_key(participants)
            current_slug == current_comparison_slug(conc_registry[r], registry_key)
            unique == ensure_unique_slug(base_slug,
                                         discard_current(conc_used[r], current_slug))
        IN  /\ conc_pc[r] = "loop"
            /\ Len(conc_made[r]) < MaxRegistrations
            /\ participants.tool1 # participants.tool2
            /\ conc_used' = [conc_used EXCEPT ![r] = unique.existing]
            /\ conc_registry' = [conc_registry EXCEPT ![r] =
                                    register_comparison_slug(@, registry_key, unique.ret,
                                                             participants, now)]
            /\ conc_made' = [conc_made EXCEPT ![r] =
                                Append(@, [key |-> registry_key, slug |-> unique.ret])]
            /\ UNCHANGED <<conc_store, conc_pc, conc_overlap, two_runs_others>>

\* generate_comparisons lines 493-497: the run writes its registry when it
\* has generated something.
RunSave(r) ==
    /\ conc_pc[r] = "loop"
    /\ conc_store' = IF Len(conc_made[r]) > 0 THEN conc_registry[r] ELSE conc_store
    /\ conc_pc' = [conc_pc EXCEPT ![r] = "done"]
    /\ UNCHANGED <<conc_registry, conc_used, conc_made, conc_overlap, two_runs_others>>

NextTwoRuns ==
    \E r \in Runs :
        \/ RunLoad(r)
        \/ RunRegister(r)
        \/ RunSave(r)

SpecTwoRuns == InitTwoRuns /\ [][NextTwoRuns]_vars

\* The stored registry holds the registration: the slug is the key's current
\* slug or is in its history.
Persisted(made) ==
    /\ made.key \in DOMAIN conc_store.comparisons
    /\ \/ conc_store.comparisons[made.key].current = made.slug
       \/ \E i \in DOMAIN conc_store.comparisons[made.key].history :
              conc_store.comparisons[made.key].history[i].slug = made.slug

LostUpdate ==
    \E r \in Runs :
        /\ conc_pc[r] = "done"
        /\ \E i \in DOMAIN conc_made[r] : ~Persisted(conc_made[r][i])

\* C19: the load-mutate-save cycle of the registry has no lock and no
\* version check: when the cycles of two runs do not overlap, every
\* registration of a run that has saved is in the stored registry
\* afterwards, and a registration can only be lost when they overlap.
C19_SerializedRunsKeepRegistrations ==
    (conc_pc # <<>> /\ ~conc_overlap) => ~LostUpdate

\* Two overlapping runs have both saved, and the stored registry lacks a
\* registration one of them made.
C19_Witness ==
    /\ conc_pc # <<>>
    /\ \A r \in Runs : conc_pc[r] = "done"
    /\ conc_overlap
    /\ LostUpdate

(***************************************************************************)
(* tool_classifier.py: the rule-based classifier.  Scores are counted in   *)
(* halves (the weights are 3.0, 1.0, 0.5, 1.5, 2.0 and 1.0) and the        *)
(* confidence in hundredths.  The texts given to it are in lower case, so  *)
(* lower() leaves them as they are.                                        *)
(***************************************************************************)
ToolTypes ==
    <<"open_source", "ml_model", "saas_commercial", "api_service", "developer_tool">>

GENERIC == "generic"

\* CLASSIFICATION_RULES, of each type the signals; the URL patterns are
\* literal texts with the dot escaped.
CLASSIFICATION_RULES(tool_type) ==
    CASE tool_type = "open_source" ->
           [url_patterns |-> {"github.com/", "gitlab.com/", "bitbucket.org/", "codeberg.org/",
                              "sourceforge.net/"},
            description_signals |-> {"open source", "open-source", "opensource", "mit license",
                                     "apache license", "gpl", "bsd license", "self-host",
                                     "self host", "fork", "contribute", "community-driven"},
            tag_signals |-> {"open-source", "self-hosted", "foss", "libre"},
            category_signals |-> {},
            pricing_signals |-> {}]
      [] tool_type = "ml_model" ->
           [url_patterns |-> {"huggingface.co/", "replicate.com/", "civitai.com/", "ollama.com/"},
            description_signals |-> {"model", "transformer", "llm", "large language model",
                                     "neural network", "fine-tun", "pretrain", "inference",
                                     "embedding", "diffusion", "stable diffusion", "checkpoint",
                                     "weights", "parameters", "billion parameter", "7b", "13b",
                                     "70b", "foundation model"},
            tag_signals |-> {"model", "llm", "transformer", "machine-learning", "deep-learning",
                             "neural-network", "nlp", "computer-vision"},
            category_signals |-> {"language models", "image generation", "audio", "video"},
            pricing_signals |-> {}]
      [] tool_type = "saas_commercial" ->
           [url_patterns |-> {"/pricing", "/plans", "/subscribe", "/signup", "/sign-up", "/login",
                              "/app", "app.", "dashboard"},
            description_signals |-> {"subscription", "pricing", "enterprise", "pro plan",
                                     "business plan", "free tier", "pay per", "per month",
                                     "/month", "trial", "saas", "cloud-based", "hosted solution"},
            tag_signals |-> {},
            category_signals |-> {},
            pricing_signals |-> {"free", "starter", "pro", "enterprise", "custom", "$"}]
      [] tool_type = "api_service" ->
           [url_patterns |-> {"/api", "/docs", "developer.", "platform."},
            description_signals |-> {"api", "endpoint", "sdk", "rest", "graphql", "webhook",
                                     "integration", "developer", "programmatic",
                                     "authentication", "rate limit"},
            tag_signals |-> {"api", "sdk", "developer-tools", "integration"},
            category_signals |-> {},
            pricing_signals |-> {}]
      [] tool_type = "developer_tool" ->
           [url_patterns |-> {},
            description_signals |-> {"cli", "command line", "terminal", "ide", "editor", "plugin",
                                     "extension", "framework", "library", "toolkit", "dev tool",
                                     "developer tool"},
            tag_signals |-> {"cli", "developer-tools", "productivity", "framework"},
            category_signals |-> {},
            pricing_signals |-> {}]

\* _normalize_text(text)
_normalize_text(text) == StripChar(text, " ")

\* _check_url_patterns(url, patterns)
_check_url_patterns(url, patterns) ==
    \E pattern \in patterns : IsSubstring(pattern, url)

\* _check_text_signals(text, signals)
_check_text_signals(text, signals) ==
    Cardinality({signal \in signals : IsSubstring(signal, _normalize_text(text))})

\* _calculate_type_score(tool, tool_type, rules), in halves
_calculate_type_score(tool, rules) ==
    (IF _check_url_patterns(tool.url, rules.url_patterns) THEN 6 ELSE 0)
    + 2 * _check_text_signals(tool.description, rules.description_signals)
    + _check_text_signals(tool.name, rules.description_signals)
    + 3 * Cardinality({i \in DOMAIN tool.tags :
                          _normalize_text(tool.tags[i])
                              \in {_normalize_text(sig) : sig \in rules.tag_signals}})
    + (IF /\ rules.category_signals # {}
          /\ _normalize_text(tool.category)
                 \in {_normalize_text(sig) : sig \in rules.category_signals}
       THEN 4 ELSE 0)
    + (IF rules.pricing_signals # {}
       THEN 2 * _check_text_signals(tool.pricing, rules.pricing_signals) ELSE 0)

\* Lines 407-409: the score of every type.
type_scores(tool) ==
    [k \in DOMAIN ToolTypes |-> _calculate_type_score(tool, CLASSIFICATION_RULES(ToolTypes[k]))]

\* max(scores, key=...): the first type, in the order of the rules, with the
\* highest score.
first_best(scores) ==
    CHOOSE k \in DOMAIN scores :
        /\ \A j \in DOMAIN scores : scores[j] <= scores[k]
        /\ \A j \in DOMAIN scores : j < k => scores[j] < scores[k]

\* classify_tool keeping the best type whatever the confidence.
classify_tool_without_fallback(tool) ==
    LET scores == type_scores(tool)
        best == first_best(scores)
        confidence == IF scores[best] * 5 < 100 THEN scores[best] * 5 ELSE 100
    IN  [type |-> ToolTypes[best], confidence |-> confidence, scores |-> scores]

\* classify_tool(tool): type, confidence (hundredths) and scores (halves)
classify_tool(tool) ==
    LET scores == type_scores(tool)
        best == first_best(scores)
        confidence == IF scores[best] * 5 < 100 THEN scores[best] * 5 ELSE 100
    IN  [type |-> IF confidence < 10 THEN GENERIC ELSE ToolTypes[best],
         confidence |-> confidence,
         scores |-> scores]

(***************************************************************************)
(* Calls of classify_tool.                                                 *)
(***************************************************************************)
ClassifyToolInputs ==
    [url : {"", "https://tool.dev", "https://github.com/a/b", "https://tool.dev/pricing"},
     description : {"", "a chat assistant", "an ide", "open source llm with an api",
                    "enterprise subscription with free tier and trial per month"},
     name : {"", "gpt", "fork", "model zoo"},
     tags : {<<>>, <<"llm">>, <<"api", "api">>},
     category : {"", " language models "},
     pricing : {"", "free", "pro $ enterprise"}]

InitClassify ==
    /\ cls_args \in ClassifyToolInputs
    /\ cls_result = <<>>
    /\ now = 0
    /\ MoreIdle
    /\ RefreshIdle
    /\ EnhancerIdle
    /\ TwoRunsIdle
    /\ ScorerIdle
    /\ PartitionerIdle
    /\ registry = DEFAULT_REGISTRY
    /\ used_slugs = {}
    /\ last = NoCall
    /\ kind = "none"
    /\ dry_run = FALSE
    /\ pc = "idle"
    /\ stored_registry = DEFAULT_REGISTRY
    /\ stored_kind = "object"
    /\ stored_tools = <<>>
    /\ tools_data = <<>>
    /\ tool_copy = NoTool
    /\ generated_count = 0

CallClassify ==
    /\ cls_args # <<>>
    /\ cls_result = <<>>
    /\ cls_result' = classify_tool(cls_args)
    /\ UNCHANGED <<cls_args, refresh_vars, enhance_vars, conc_vars, registry_vars, run_vars,
                   score_vars, tier_vars, now, more_vars>>

NextClassify == CallClassify

SpecClassify == InitClassify /\ [][NextClassify]_vars

\* The highest score a type has reached in the call made.
BestScore ==
    CHOOSE m \in {cls_result.scores[k] : k \in DOMAIN cls_result.scores} :
        \A k \in DOMAIN cls_result.scores : cls_result.scores[k] <= m

\* C20: classify_tool returns the generic type whenever the best score
\* divided by 10 and capped at 1.0 is below 0.1, whichever type scored
\* highest; a tool matching no signal gets the generic type with confidence
\* 0; whenever the confidence is at least 0.1 the returned type is one with
\* the highest score.
C20_LowConfidenceIsGeneric ==
    cls_result # <<>> =>
        /\ cls_result.confidence = Min2(BestScore * 5, 100)
        /\ cls_result.confidence < 10 => cls_result.type = GENERIC
        /\ BestScore = 0 => cls_result.type = GENERIC /\ cls_result.confidence = 0
        /\ cls_result.confidence >= 10 =>
              \E k \in DOMAIN ToolTypes :
                  /\ cls_result.type = ToolTypes[k]
                  /\ cls_result.scores[k] = BestScore

\* A tool whose only match is one signal in its name: a type scored 0.5 and
\* the tool is generic.
C20_Witness ==
    /\ cls_result # <<>>
    /\ BestScore = 1
    /\ cls_result.type = GENERIC
    /\ cls_result.confidence = 5

(***************************************************************************)
(* Calls of calculate_importance_score with external metrics that are      *)
(* missing or malformed.                                                   *)
(***************************************************************************)
\* The shapes of a count field: 1200, no such key, null, "1200".
CountKinds == {"number", "absent", "null", "text"}

\* pushed_at: no such key, "yesterday", an ISO date 5 or 60 days back, 20240101.
PushedAtInputs ==
    {[kind |-> "absent", day |-> 0], [kind |-> "invalid", day |-> 0],
     [kind |-> "date", day |-> 95], [kind |-> "date", day |-> 40],
     [kind |-> "number", day |-> 0]}

MetricGithubInputs ==
    {NoGithub}
    \cup {[present |-> TRUE, stars_kind |-> k, stars |-> 1200, last_commit |-> c,
           pushed_at |-> p] : k \in CountKinds, c \in BOOLEAN, p \in PushedAtInputs}

MetricHfInputs ==
    {NoHf}
    \cup {[present |-> TRUE, downloads_kind |-> dk, downloads |-> 1000,
           downloads_all_time |-> a, likes_kind |-> lk, likes |-> 100] :
             dk \in CountKinds, a \in {0, 50000}, lk \in CountKinds}

MetricToolInputs ==
    {[url |-> "u", description |-> Repeat("a", 100), tags |-> 3, category |-> c,
      enhanced_content |-> FALSE, enhanced_content_v2 |-> FALSE, comparisons |-> FALSE,
      external_data |-> NoExternal] : c \in {"other", "chatbots"}}

InitMetrics ==
    /\ score_args \in {[tool |-> t, external_data |-> e, category_scores |-> <<>>] :
                          t \in MetricToolInputs,
                          e \in {[github_stats |-> g, huggingface_stats |-> h,
                                  traffic_score |-> 0] :
                                     g \in MetricGithubInputs, h \in MetricHfInputs}}
    /\ score_result = -1
    /\ score_raised = "none"
    /\ now = 100
    /\ PartitionerIdle
    /\ AuxIdle
    /\ registry = DEFAULT_REGISTRY
    /\ used_slugs = {}
    /\ last = NoCall
    /\ kind = "none"
    /\ dry_run = FALSE
    /\ pc = "idle"
    /\ stored_registry = DEFAULT_REGISTRY
    /\ stored_kind = "object"
    /\ stored_tools = <<>>
    /\ tools_data = <<>>
    /\ tool_copy = NoTool
    /\ generated_count = 0

SpecMetrics == InitMetrics /\ [][NextScore]_vars

\* The call has been made: it returned or it raised.
ScoreCalled == score_args # <<>> /\ (score_result # -1 \/ score_raised # "none")

\* A stats map with every malformed field taken out: a null or text count
\* and a pushed_at that cannot be parsed become absent.
WithoutMalformedGithub(g) ==
    [g EXCEPT !.stars_kind = IF @ = "number" THEN @ ELSE "absent",
              !.pushed_at = IF @.kind = "date" THEN @ ELSE [kind |-> "absent", day |-> 0]]

WithoutMalformedHf(h) ==
    [h EXCEPT !.downloads_kind = IF @ = "number" THEN @ ELSE "absent",
              !.likes_kind = IF @ = "number" THEN @ ELSE "absent"]

WithoutMalformed(external_data) ==
    [external_data EXCEPT !.github_stats = WithoutMalformedGithub(@),
                          !.huggingface_stats = WithoutMalformedHf(@)]

\* C21: a call of calculate_importance_score whose external metrics are
\* missing or malformed (absent stats map, missing or null count, count that
\* is not a number, activity date that cannot be parsed) never raises and
\* returns the score of the same call with those metrics left out.
C21_MalformedMetricsContributeZero ==
    ScoreCalled =>
        /\ score_raised = "none"
        /\ score_result = calculate_importance_score(
                              score_args.tool, WithoutMalformed(score_args.external_data),
                              score_args.category_scores, now)

\* The part of the claim the code keeps: absent maps, missing counts, a null
\* downloads and date strings that do not parse contribute nothing and raise
\* nothing.
HandledMetrics ==
    LET g == score_args.external_data.github_stats
        h == score_args.external_data.huggingface_stats
    IN  /\ g.stars_kind \in {"number", "absent"}
        /\ g.pushed_at.kind # "number"
        /\ h.downloads_kind # "text"
        /\ h.likes_kind \in {"number", "absent"}

MissingMetricsContributeZero ==
    ScoreCalled /\ HandledMetrics =>
        /\ score_raised = "none"
        /\ score_result = calculate_importance_score(
                              score_args.tool, WithoutMalformed(score_args.external_data),
                              score_args.category_scores, now)

\* A null star count made the call raise.
NullCountRaises ==
    /\ ScoreCalled
    /\ score_args.external_data.github_stats.stars_kind = "null"
    /\ score_raised = "TypeError"

(***************************************************************************)
(* Calls of generate_tool_slug (seo_utils.py).  A text is the sequence of  *)
(* its words, <<>> for a text that is empty, None or normalizes to         *)
(* nothing.                                                                *)
(***************************************************************************)
MaxNameWords == 3    \* words in a tool name

\* Stopwords, plain words, a word that is the start of another, and words
\* that reach the length limits of 20 and 60.
LongWord == Repeat("b", 30)
OverlongWord == Repeat("c", 61)
NameWords == {"the", "ai", "tools", "copilot", "github", "githubby", LongWord, OverlongWord}

NameInputs == UNION {[1..n -> NameWords] : n \in 0..MaxNameWords}
VendorInputs == {<<>>, <<"github">>, <<"the", "ai">>, <<LongWord>>}
DisambiguatorInputs == {<<>>, <<"t1">>}

slug_others == <<registry_vars, run_vars, score_vars, tier_vars, now, refresh_vars,
                 enhance_vars, conc_vars, classify_vars, traffic_vars, fresh_vars,
                 storage_vars>>

InitSlug ==
    /\ slug_args \in [tool_name : NameInputs, vendor_name : VendorInputs,
                       disambiguator : DisambiguatorInputs]
    /\ slug_result = "none"
    /\ now = 0
    /\ CategoryScorerIdle
    /\ FreshnessIdle
    /\ StorageIdle
    /\ RefreshIdle
    /\ EnhancerIdle
    /\ TwoRunsIdle
    /\ ClassifierIdle
    /\ ScorerIdle
    /\ PartitionerIdle
    /\ registry = DEFAULT_REGISTRY
    /\ used_slugs = {}
    /\ last = NoCall
    /\ kind = "none"
    /\ dry_run = FALSE
    /\ pc = "idle"
    /\ stored_registry = DEFAULT_REGISTRY
    /\ stored_kind = "object"
    /\ stored_tools = <<>>
    /\ tools_data = <<>>
    /\ tool_copy = NoTool
    /\ generated_count = 0

CallGenerateToolSlug ==
    /\ slug_args # <<>>
    /\ slug_result = "none"
    /\ slug_result' = generate_tool_slug(slug_args.tool_name, slug_args.vendor_name,
                                         slug_args.disambiguator)
    /\ UNCHANGED <<slug_args, slug_others>>

NextSlug == CallGenerateToolSlug

SpecSlug == InitSlug /\ [][NextSlug]_vars

SlugCalled == slug_args # <<>> /\ slug_result # "none"

\* The tokens of the name: its normalized slug, split at the hyphens.
NameSlug == generate_slug(slug_args.tool_name, DEFAULT_MAX_SLUG_LENGTH)
NameTokens == IF NameSlug = "" THEN <<>> ELSE Split(NameSlug, "-")
IsNotStopword(token) == token \notin STOPWORDS
KeptTokens ==
    IF SelectSeq(NameTokens, IsNotStopword) # <<>> THEN SelectSeq(NameTokens, IsNotStopword)
    ELSE NameTokens

\* C22: stopword removal never removes every token.  When the name has a
\* token that is not a stopword the slug of the name alone holds no stopword
\* and is made of the other tokens, in order; when every token is a stopword
\* all of them are kept; and whenever the name normalizes to a non-empty
\* slug the result is not empty, with or without vendor and disambiguator.
C22_StopwordsNeverEmptyTheSlug ==
    SlugCalled /\ NameSlug # "" =>
        /\ slug_result # ""
        /\ slug_args.vendor_name = <<>> /\ slug_args.disambiguator = <<>> =>
              LET tokens == Split(slug_result, "-") IN
              /\ Len(tokens) <= Len(KeptTokens)
              /\ \A i \in DOMAIN tokens :
                    \/ tokens[i] = KeptTokens[i]
                    \/ i = 1 /\ Len(tokens) = 1 /\ StartsWith(KeptTokens[1], tokens[1])
              /\ Len(Join(KeptTokens, "-")) <= DEFAULT_MAX_SLUG_LENGTH => tokens = KeptTokens

\* Both cases happen: a name of stopwords only keeps them all, ...
C22_Witness ==
    /\ SlugCalled
    /\ slug_args.tool_name = <<"the", "ai", "tools">>
    /\ slug_args.vendor_name = <<>>
    /\ slug_args.disambiguator = <<>>
    /\ slug_result = "the-ai-tools"

\* ... and a name with another token loses its stopwords.
StopwordsDropped ==
    /\ SlugCalled
    /\ slug_args.tool_name = <<"the", "copilot", "tools">>
    /\ slug_args.vendor_name = <<>>
    /\ slug_args.disambiguator = <<>>
    /\ slug_result = "copilot"

\* The vendor's slug, the slug of the name alone, and the slug the same call
\* gives without the vendor.
VendorSlug == generate_slug(slug_args.vendor_name, 20)
SlugOfName == generate_tool_slug(slug_args.tool_name, <<>>, <<>>)
SlugWithoutVendor == generate_tool_slug(slug_args.tool_name, <<>>, slug_args.disambiguator)

\* slug begins with the tokens of lead, or is lead.
LedBy(slug, lead) == slug = lead \/ StartsWith(slug, lead \o "-")

\* C23: with a vendor name the slug carries the vendor's slug as its leading
\* tokens exactly once: it is prefixed when the slug of the name does not
\* begin with it, and the slug is the one of the name, nothing repeated,
\* when the name begins with the vendor or is the vendor.
C23_VendorLeadsExactlyOnce ==
    SlugCalled /\ VendorSlug # "" /\ NameSlug # "" =>
        /\ LedBy(slug_result, VendorSlug)
        /\ LedBy(SlugOfName, VendorSlug) => slug_result = SlugWithoutVendor
        /\ ~LedBy(SlugOfName, VendorSlug) =>
              ~LedBy(SubSeq(slug_result, Len(VendorSlug) + 2, Len(slug_result)), VendorSlug)

\* The part of the claim the code keeps: the vendor leads, and a name that
\* begins with the vendor and goes on is left as it is.
VendorLeads ==
    SlugCalled /\ VendorSlug # "" /\ NameSlug # "" =>
        /\ LedBy(slug_result, VendorSlug)
        /\ StartsWith(SlugOfName, VendorSlug \o "-") => slug_result = SlugWithoutVendor

\* The two examples of the claim, and the name that is the vendor.
VendorPrefixed ==
    /\ SlugCalled
    /\ slug_args = [tool_name |-> <<"copilot">>, vendor_name |-> <<"github">>,
                    disambiguator |-> <<>>]
    /\ slug_result = "github-copilot"

VendorNotRepeated ==
    /\ SlugCalled
    /\ slug_args = [tool_name |-> <<"github", "copilot">>, vendor_name |-> <<"github">>,
                    disambiguator |-> <<>>]
    /\ slug_result = "github-copilot"

VendorDoubled ==
    /\ SlugCalled
    /\ slug_args = [tool_name |-> <<"github">>, vendor_name |-> <<"github">>,
                    disambiguator |-> <<>>]
    /\ slug_result = "github-github"

(***************************************************************************)
(* The order of the two names of an opportunity, in                        *)
(* _store_comparison_in_tools (comparison_generator.py).                   *)
(***************************************************************************)
\* A run of generate_comparisons is where it can store a comparison.
CanStore == kind = "generate" /\ pc = "loop" /\ ~dry_run

\* The registry entry a store leaves for its pair.
EntryLeft(stored) == stored.registry.comparisons[stored.registry_key]

\* C24: from one registry, set of used slugs and tools list, storing a
\* comparison for (A, B) and storing it for (B, A) leave the same registry
\* entry: same key, same current slug, same history; and storing (B, A)
\* after (A, B) changes neither the current slug nor the history.
C24_ArgumentOrderIrrelevant ==
    CanStore =>
        \A a \in Names, b \in Names, llm_slug \in DocSlugs : a # b =>
            LET ab == _store_comparison_in_tools(tools_data, registry, used_slugs,
                                                 a, b, llm_slug, now)
                ba == _store_comparison_in_tools(tools_data, registry, used_slugs,
                                                 b, a, llm_slug, now)
                ab_ba == _store_comparison_in_tools(ab.tools, ab.registry, ab.used_slugs,
                                                    b, a, llm_slug, now + 1)
            IN  /\ ab.registry_key = ba.registry_key
                /\ EntryLeft(ab).current = EntryLeft(ba).current
                /\ EntryLeft(ab).history = EntryLeft(ba).history
                /\ EntryLeft(ab_ba).current = EntryLeft(ab).current
                /\ EntryLeft(ab_ba).history = EntryLeft(ab).history

\* The part of the claim the code keeps: the key is the same in both orders,
\* and so is the whole entry when the generated content carries its slug.
OrderIrrelevantForTheKey ==
    CanStore =>
        \A a \in Names, b \in Names, llm_slug \in DocSlugs : a # b =>
            LET ab == _store_comparison_in_tools(tools_data, registry, used_slugs,
                                                 a, b, llm_slug, now)
                ba == _store_comparison_in_tools(tools_data, registry, used_slugs,
                                                 b, a, llm_slug, now)
            IN  /\ ab.registry_key = ba.registry_key
                /\ llm_slug # "" =>
                      /\ EntryLeft(ab).current = EntryLeft(ba).current
                      /\ EntryLeft(ab).history = EntryLeft(ba).history

\* A run has stored (A, B) and then (B, A): the pair's slug was replaced.
SwappedStoreRenamed ==
    /\ kind = "generate"
    /\ generated_count = 2
    /\ ~dry_run
    /\ \E k \in DOMAIN registry.comparisons :
          /\ registry.comparisons[k].current = "y-vs-x"
          /\ Len(registry.comparisons[k].history) = 1
          /\ registry.comparisons[k].history[1].slug = "x-vs-y"

(***************************************************************************)
(* tier_all_tools: the fill of tier2 and tier3, and ties.                  *)
(***************************************************************************)
Max2(a, b) == IF a > b THEN a ELSE b

\* C25: with N indexable tools and capacities C1 and C2, tier2 receives
\* exactly min(C2, max(0, N - C1)) tools and tier3 all the indexable tools
\* that are left, and every score of tier1 is at least every score of tier2,
\* which is at least every score of tier3.
C25_GreedyFillByRank ==
    tier_pc = "done" =>
        LET n == Cardinality(Indexable) IN
        /\ Len(tiered.tier2) = Min2(tier_limits.tier2, Max2(0, n - tier_limits.tier1))
        /\ InTier("tier3") = (Indexable \ InTier("tier1")) \ InTier("tier2")
        /\ Len(tiered.tier3) = n - Len(tiered.tier1) - Len(tiered.tier2)
        /\ \A i \in InTier("tier1"), j \in InTier("tier2") : ScoreOf(i) >= ScoreOf(j)
        /\ \A j \in InTier("tier2"), k \in InTier("tier3") : ScoreOf(j) >= ScoreOf(k)
        /\ \A i \in InTier("tier1"), k \in InTier("tier3") : ScoreOf(i) >= ScoreOf(k)

\* tier1 and tier2 are full, tools overflowed into tier3, and the scores
\* fall from tier to tier.
C25_Witness ==
    /\ tier_pc = "done"
    /\ tier_limits.tier1 > 0
    /\ tier_limits.tier2 > 0
    /\ Len(tiered.tier1) = tier_limits.tier1
    /\ Len(tiered.tier2) = tier_limits.tier2
    /\ Len(tiered.tier3) > 0
    /\ \E i \in InTier("tier1"), j \in InTier("tier2") : ScoreOf(i) > ScoreOf(j)
    /\ \E j \in InTier("tier2"), k \in InTier("tier3") : ScoreOf(j) > ScoreOf(k)

\* The tier of a tool of the input and its place in that tier's list.
TierHolding(i) == CHOOSE t \in TierNames : i \in InTier(t)
PlaceInTier(i) == CHOOSE k \in DOMAIN tiered[TierHolding(i)] : tiered[TierHolding(i)][k] = i
TierRank(t) == IF t = "tier1" THEN 1 ELSE IF t = "tier2" THEN 2 ELSE IF t = "tier3" THEN 3 ELSE 4

\* C26: ties are broken by input order.  Of two indexable tools with equal
\* scores the one earlier in the input is never in a lower tier than the
\* later one and precedes it inside a tier they share; and the lists
\* returned are a function of the input.
C26_TiesKeepInputOrder ==
    tier_pc = "done" =>
        /\ \A i \in Indexable, j \in Indexable :
              i < j /\ ScoreOf(i) = ScoreOf(j) =>
                  /\ TierRank(TierHolding(i)) <= TierRank(TierHolding(j))
                  /\ TierHolding(i) = TierHolding(j) => PlaceInTier(i) < PlaceInTier(j)
        /\ tiered = tier_all_tools(tier_tools, tier_limits, now)

\* A tie decided the tier: of two indexable tools with the same score the
\* earlier is in tier1 and the later is not, while two more share a tier.
C26_Witness ==
    /\ tier_pc = "done"
    /\ \E i \in Indexable, j \in Indexable :
          /\ i < j
          /\ ScoreOf(i) = ScoreOf(j)
          /\ TierHolding(i) = "tier1"
          /\ TierHolding(j) = "tier2"
    /\ \E i \in Indexable, j \in Indexable :
          /\ i < j
          /\ ScoreOf(i) = ScoreOf(j)
          /\ TierHolding(i) = TierHolding(j)

(***************************************************************************)
(* compute_category_scores_from_traffic (quality_tiers.py).  A dictionary  *)
(* that keeps insertion order is the sequence of its items; category names *)
(* are lower-case, so that lower() leaves them and strip() is what         *)
(* normalizes them.                                                        *)
(***************************************************************************)
MaxCategories == 5   \* categories among the tools

\* Lines 133-142: category_traffic after the loop over tools.
RECURSIVE aggregate_traffic(_, _, _)
aggregate_traffic(tools, traffic_by_slug, category_traffic) ==
    IF Len(tools) = 0 THEN category_traffic
    ELSE LET tool == Head(tools)
             category == StripChar(tool.category, " ")
             known == {i \in DOMAIN category_traffic : category_traffic[i].category = category}
             pageviews == traffic_by_slug[tool.slug]
             added ==
                 IF known = {}
                 THEN Append(category_traffic, [category |-> category, pageviews |-> pageviews])
                 ELSE [i \in DOMAIN category_traffic |->
                          IF i \in known
                          THEN [category_traffic[i] EXCEPT !.pageviews = @ + pageviews]
                          ELSE category_traffic[i]]
         IN  IF category = "" \/ tool.slug \notin DOMAIN traffic_by_slug
             THEN aggregate_traffic(Tail(tools), traffic_by_slug, category_traffic)
             ELSE aggregate_traffic(Tail(tools), traffic_by_slug, added)

\* Lines 148-152: sorted(..., key=traffic, reverse=True), a stable sort.
RECURSIVE sort_by_traffic_desc(_)
sort_by_traffic_desc(items) ==
    IF Len(items) <= 1 THEN items
    ELSE LET front == sort_by_traffic_desc(SubSeq(items, 1, Len(items) - 1))
             e == items[Len(items)]
             k == Cardinality({i \in DOMAIN front : front[i].pageviews >= e.pageviews})
         IN  SubSeq(front, 1, k) \o <<e>> \o SubSeq(front, k + 1, Len(front))

\* The cutoff of the top band taking every rank i with i / n < 0.2.
top_20_cutoff_by_share(total_categories) == (total_categories + 4) \div 5

\* Line 156: int(total_categories * 0.2)
top_20_cutoff(total_categories) == total_categories \div 5

\* Line 157: int(total_categories * 0.5)
top_50_cutoff(total_categories) == total_categories \div 2

\* Lines 160-166: the score of the category at 0-based rank i of n.
band_score(i, total_categories) ==
    IF i < top_20_cutoff(total_categories) THEN 15
    ELSE IF i < top_50_cutoff(total_categories) THEN 10
    ELSE 5

\* sorted_categories with their traffic, <<>> when the function returns at
\* line 127 or 145.
sorted_categories(tools, traffic_by_slug) ==
    IF DOMAIN traffic_by_slug = {} THEN <<>>
    ELSE sort_by_traffic_desc(aggregate_traffic(tools, traffic_by_slug, <<>>))

\* compute_category_scores_from_traffic(tools, traffic_by_slug)
compute_category_scores_from_traffic(tools, traffic_by_slug) ==
    LET ranked == sorted_categories(tools, traffic_by_slug) IN
    [category \in {ranked[i].category : i \in DOMAIN ranked} |->
        band_score((CHOOSE i \in DOMAIN ranked : ranked[i].category = category) - 1,
                   Len(ranked))]

\* What the tools of one category look like: none; one whose slug has no
\* traffic entry; one with 0, 10 or 20 page views; two with 10 each, the
\* second writing the category with a trailing space.
CategoryProfiles == {"none", "untracked", "zero", "low", "high", "two"}

CategoryName(k) == "c" \o ToString(k)
SlugName(k) == "s" \o ToString(k)

ToolsOfCategory(k, profile) ==
    IF profile = "none" THEN <<>>
    ELSE IF profile = "two"
    THEN <<[category |-> CategoryName(k), slug |-> SlugName(k)],
           [category |-> CategoryName(k) \o " ", slug |-> SlugName(k) \o "b"]>>
    ELSE <<[category |-> CategoryName(k), slug |-> SlugName(k)]>>

RECURSIVE ToolsOfProfiles(_, _)
ToolsOfProfiles(profiles, k) ==
    IF k > Len(profiles) THEN <<>>
    ELSE ToolsOfCategory(k, profiles[k]) \o ToolsOfProfiles(profiles, k + 1)

\* traffic_by_slug for the profiles; it always knows a slug of no tool.
TrafficOfProfiles(profiles) ==
    LET tracked == {k \in DOMAIN profiles : profiles[k] \in {"zero", "low", "high", "two"}}
        slugs == {SlugName(k) : k \in tracked}
                 \cup {SlugName(k) \o "b" : k \in {j \in tracked : profiles[j] = "two"}}
                 \cup {"elsewhere"}
        views(slug) ==
            IF slug = "elsewhere" THEN 5
            ELSE LET k == CHOOSE j \in tracked : slug \in {SlugName(j), SlugName(j) \o "b"}
                 IN  IF profiles[k] = "zero" THEN 0
                     ELSE IF profiles[k] = "high" THEN 20 ELSE 10
    IN  [slug \in slugs |-> views(slug)]

\* The tools listed with an entry that has no category, and the traffic map
\* empty or not.
TrafficInputs ==
    {[tools |-> <<[category |-> " ", slug |-> "elsewhere"]>> \o ToolsOfProfiles(profiles, 1),
      traffic_by_slug |-> IF empty THEN <<>> ELSE TrafficOfProfiles(profiles)] :
        profiles \in [1..MaxCategories -> CategoryProfiles], empty \in BOOLEAN}

traffic_others == <<registry_vars, run_vars, score_vars, tier_vars, now, refresh_vars,
                    enhance_vars, conc_vars, classify_vars, slug_vars, fresh_vars,
                    storage_vars>>

InitTraffic ==
    /\ cat_args \in TrafficInputs
    /\ cat_result = <<>>
    /\ cat_pc = "start"
    /\ now = 0
    /\ SlugGeneratorIdle
    /\ FreshnessIdle
    /\ StorageIdle
    /\ RefreshIdle
    /\ EnhancerIdle
    /\ TwoRunsIdle
    /\ ClassifierIdle
    /\ ScorerIdle
    /\ PartitionerIdle
    /\ registry = DEFAULT_REGISTRY
    /\ used_slugs = {}
    /\ last = NoCall
    /\ kind = "none"
    /\ dry_run = FALSE
    /\ pc = "idle"
    /\ stored_registry = DEFAULT_REGISTRY
    /\ stored_kind = "object"
    /\ stored_tools = <<>>
    /\ tools_data = <<>>
    /\ tool_copy = NoTool
    /\ generated_count = 0

CallCategoryScores ==
    /\ cat_pc = "start"
    /\ cat_result' = compute_category_scores_from_traffic(cat_args.tools,
                                                          cat_args.traffic_by_slug)
    /\ cat_pc' = "done"
    /\ UNCHANGED <<cat_args, traffic_others>>

NextTraffic == CallCategoryScores

SpecTraffic == InitTraffic /\ [][NextTraffic]_vars

\* The categories that have traffic, by total page views, highest first, and
\* the categories of the result with a given score.
RankedCategories == sorted_categories(cat_args.tools, cat_args.traffic_by_slug)
CategoriesScoring(points) == {c \in DOMAIN cat_result : cat_result[c] = points}

\* C27 as claimed: the category at 0-based rank i of n gets 15 points when
\* i / n < 0.2, 10 when 0.2 <= i / n < 0.5 and 5 otherwise; so the category
\* with the most traffic gets 15 for every n >= 1, and every score is one of
\* 5, 10, 15.
C27_TrafficBandsByShare ==
    cat_pc = "done" =>
        \A ranked \in {RankedCategories} :
            LET n == Len(ranked) IN
            /\ \A i \in DOMAIN ranked :
                  cat_result[ranked[i].category] =
                      IF 5 * (i - 1) < n THEN 15
                      ELSE IF 2 * (i - 1) < n THEN 10
                      ELSE 5
            /\ n >= 1 => cat_result[ranked[1].category] = 15
            /\ \A c \in DOMAIN cat_result : cat_result[c] \in {5, 10, 15}

\* C27 as amended: of the n categories that have traffic, the n div 5 with
\* the most page views get 15 points, the next (n div 2) - (n div 5) get 10
\* and the others 5; a category never gets fewer points than one with less
\* traffic; the category with the most traffic gets 15 exactly when n >= 5;
\* every score is one of 5, 10, 15.
C27_TrafficBandsByCutoff ==
    cat_pc = "done" =>
        \A ranked \in {RankedCategories} :
            LET n == Len(ranked) IN
            /\ DOMAIN cat_result = {ranked[i].category : i \in DOMAIN ranked}
            /\ Cardinality(DOMAIN cat_result) = n
            /\ Cardinality(CategoriesScoring(15)) = n \div 5
            /\ Cardinality(CategoriesScoring(10)) = (n \div 2) - (n \div 5)
            /\ Cardinality(CategoriesScoring(5)) = n - (n \div 2)
            /\ \A i \in DOMAIN ranked, j \in DOMAIN ranked :
                  ranked[i].pageviews > ranked[j].pageviews =>
                      cat_result[ranked[i].category] >= cat_result[ranked[j].category]
            /\ n >= 1 => (cat_result[ranked[1].category] = 15 <=> n >= 5)
            /\ \A c \in DOMAIN cat_result : cat_result[c] \in {5, 10, 15}

\* Five categories have traffic and the three bands are all given.
C27_Witness ==
    /\ cat_pc = "done"
    /\ Cardinality(DOMAIN cat_result) = 5
    /\ Cardinality(CategoriesScoring(15)) = 1
    /\ Cardinality(CategoriesScoring(10)) = 1
    /\ Cardinality(CategoriesScoring(5)) = 3

\* One category alone has traffic and gets the low band.
OnlyCategoryScoresFive ==
    /\ cat_pc = "done"
    /\ Cardinality(DOMAIN cat_result) = 1
    /\ \A c \in DOMAIN cat_result : cat_result[c] = 5

(***************************************************************************)
(* The two documents a run writes: the tools document, then the registry.  *)
(***************************************************************************)
\* A slug is recorded in a registry entry: as its current slug or in its
\* history.
RecordedIn(reg, section, slug) ==
    \E k \in DOMAIN reg[section] : slug \in entry_slugs(reg[section][k])

\* Every slug of the persisted tools document is recorded in the persisted
\* registry: a tool's slug under the tool's id, a comparison's slug under a
\* pair.
PersistedSlugsRecorded ==
    \A i \in DOMAIN stored_tools :
        LET tool == stored_tools[i] IN
        /\ tool.slug # "" =>
              /\ tool.id \in DOMAIN stored_registry.tools
              /\ tool.slug \in entry_slugs(stored_registry.tools[tool.id])
        /\ \A key \in DOMAIN tool.comparisons :
              tool.comparisons[key].slug # "" =>
                  RecordedIn(stored_registry, "comparisons", tool.comparisons[key].slug)

\* C28: in every persisted state a run goes through, also between its two
\* writes, each tool or comparison slug of the persisted tools document is
\* recorded for its subject in the persisted registry: no step of a run
\* takes the two documents from a state where that holds to one where it
\* does not.
C28_PersistedDocumentsAgree ==
    [][PersistedSlugsRecorded => PersistedSlugsRecorded']_vars

\* The part of the claim the code keeps: a migration that is not a dry run
\* and writes both documents leaves them in agreement.
MigrationEndsInAgreement ==
    kind = "migrate" /\ pc = "done" /\ ~dry_run => PersistedSlugsRecorded

\* The tools document has been written, the registry has not, and the
\* tools document holds a slug the persisted registry does not know.
BetweenTheWrites ==
    /\ pc \in {"save_registry", "aborted"}
    /\ stored_tools = tools_data
    /\ ~PersistedSlugsRecorded

(***************************************************************************)
(* comparison_generator.py: the freshness check of generate_comparisons.   *)
(* The loop of lines 452-490 over the opportunities, the stored payloads   *)
(* carrying their timestamps; the day is what datetime.now() returns, and  *)
(* a timestamp is the day isoformat() wrote.                               *)
(***************************************************************************)
MaxFreshDay == 2
MaxOpportunities == 2

\* timedelta(days=stale_days), line 432, for positive stale_days
StaleAfterInputs == {1, 2}

\* _needs_comparison_generation(opportunity, tools_data, stale_after, force)
\* called on day t, lines 303-332: no tool holds, under one of the two
\* lookup keys, a payload whose "generated_at" is less than stale_after old.
_needs_comparison_generation(tool1_name, tool2_name, tools, stale_after, force, t) ==
    LET comparison_key1 == NameLower(tool1_name) \o "_vs_" \o NameLower(tool2_name)
        comparison_key2 == NameLower(tool2_name) \o "_vs_" \o NameLower(tool1_name)
        existing_comparison(tool) ==
            IF comparison_key1 \in DOMAIN tool.comparisons
            THEN tool.comparisons[comparison_key1]
            ELSE IF comparison_key2 \in DOMAIN tool.comparisons
                 THEN tool.comparisons[comparison_key2]
                 ELSE <<>>
        is_fresh(payload) ==
            /\ payload # <<>>
            /\ "generated_at" \in DOMAIN payload
            /\ t - payload.generated_at < stale_after
    IN  IF force THEN TRUE
        ELSE ~ \E i \in DOMAIN tools : is_fresh(existing_comparison(tools[i]))

\* _store_comparison_in_tools lines 366 and 383-387: the payload stored on
\* the tools, for the dictionary _generate_comparison_content returned on
\* day generated_at (line 232).
comparison_clean(canonical_slug, generated_at) ==
    [slug |-> canonical_slug, last_generated_at |-> generated_at]

\* What _store_comparison_in_tools left, the payload on the tools carrying its
\* timestamp.
with_timestamp(stored, tools, tool1_name, tool2_name, t) ==
    [registry |-> stored.registry,
     used_slugs |-> stored.used_slugs,
     tools |-> store_on_tools(tools, tool1_name, tool2_name,
                              stored_comparison_key(tool1_name, tool2_name),
                              comparison_clean(
                                  stored.registry.comparisons[stored.registry_key].current,
                                  t))]

\* _store_comparison_in_tools with the payload's timestamps, on day t.
store_generated(tools, reg, used, tool1_name, tool2_name, llm_slug, t) ==
    with_timestamp(_store_comparison_in_tools(tools, reg, used, tool1_name, tool2_name,
                                              llm_slug, t),
                   tools, tool1_name, tool2_name, t)

\* A payload as migrate_dataset leaves it (backfill_metadata.py:172-173):
\* "generated_at" kept, "last_generated_at" added.
MigratedPayload(slug, at) ==
    [slug |-> slug, generated_at |-> at, last_generated_at |-> at]

\* The comparisons the first two tools hold when the run loads the document.
FreshComparisonInputs ==
    {<<>>,
     "x_vs_y" :> MigratedPayload("x-vs-y", 0),
     "y_vs_x" :> MigratedPayload("x-vs-y", 0)}

FreshToolDocs ==
    {<<[id |-> "t1", name |-> <<"x">>, slug |-> "x", comparisons |-> c],
       [id |-> "t2", name |-> <<"y">>, slug |-> "y", comparisons |-> c]>> \o more :
        c \in FreshComparisonInputs,
        more \in {<<>>, <<[id |-> "t3", name |-> <<"the", "x">>, slug |-> "the-x",
                          comparisons |-> <<>>]>>}}

\* The registry of a document: its comparison registered for t1 and t2.
FreshRegistryOf(tools) ==
    IF tools[1].comparisons = <<>> THEN DEFAULT_REGISTRY
    ELSE register_comparison_slug(DEFAULT_REGISTRY, "t1__t2", "x-vs-y",
                                  [tool1 |-> "t1", tool2 |-> "t2"], 0)

fresh_others == <<registry_vars, run_vars, score_vars, tier_vars, now, refresh_vars,
                  enhance_vars, conc_vars, classify_vars, slug_vars, traffic_vars,
                  storage_vars>>

\* generate_comparisons lines 424-432: the data loaded, the used slugs
\* seeded from the registry and the tools' slugs.
InitFresh ==
    /\ fresh_tools \in FreshToolDocs
    /\ fresh_registry = FreshRegistryOf(fresh_tools)
    /\ fresh_used = collect_existing_slugs(fresh_registry)
                    \cup {fresh_tools[i].slug : i \in DOMAIN fresh_tools}
    /\ fresh_flags \in [stale_after : StaleAfterInputs, force : BOOLEAN]
    /\ fresh_now = 0
    /\ fresh_count = 0
    /\ fresh_last = <<>>
    /\ now = 0
    /\ SlugGeneratorIdle
    /\ CategoryScorerIdle
    /\ StorageIdle
    /\ RefreshIdle
    /\ EnhancerIdle
    /\ TwoRunsIdle
    /\ ClassifierIdle
    /\ ScorerIdle
    /\ PartitionerIdle
    /\ registry = DEFAULT_REGISTRY
    /\ used_slugs = {}
    /\ last = NoCall
    /\ kind = "none"
    /\ dry_run = FALSE
    /\ pc = "idle"
    /\ stored_registry = DEFAULT_REGISTRY
    /\ stored_kind = "object"
    /\ stored_tools = <<>>
    /\ tools_data = <<>>
    /\ tool_copy = NoTool
    /\ generated_count = 0

\* Some tool holds, under the key the store uses for this pair, a payload
\* generated less than stale_after ago.
RecentlyStored(tools, tool1_name, tool2_name, stale_after, t) ==
    \E i \in DOMAIN tools :
        LET key == stored_comparison_key(tool1_name, tool2_name) IN
        /\ key \in DOMAIN tools[i].comparisons
        /\ t - tools[i].comparisons[key].last_generated_at < stale_after

\* generate_comparisons lines 452-490, one opportunity, not a dry run: it is
\* skipped when no generation is needed; otherwise the comparison is
\* generated and stored, or the generation fails.
ConsiderOpportunity ==
    \E tool1_name \in Names, tool2_name \in Names, llm_slug \in DocSlugs,
       generated \in BOOLEAN :
        /\ fresh_flags # <<>>
        /\ fresh_count < MaxOpportunities
        /\ tool1_name # tool2_name
        /\ fresh_count' = fresh_count + 1
        /\ \E needed \in {_needs_comparison_generation(tool1_name, tool2_name, fresh_tools,
                                                        fresh_flags.stale_after,
                                                        fresh_flags.force, fresh_now)} :
              /\ fresh_last' = [tool1 |-> tool1_name, tool2 |-> tool2_name,
                                outcome |-> IF ~needed THEN "skipped"
                                            ELSE IF generated THEN "generated"
                                            ELSE "failed",
                                at |-> fresh_now,
                                recent |-> RecentlyStored(fresh_tools, tool1_name,
                                                          tool2_name,
                                                          fresh_flags.stale_after,
                                                          fresh_now)]
              /\ IF needed /\ generated
                 THEN \E stored \in {store_generated(fresh_tools, fresh_registry,
                                                     fresh_used, tool1_name, tool2_name,
                                                     llm_slug, fresh_now)} :
                          /\ fresh_tools' = stored.tools
                          /\ fresh_registry' = stored.registry
                          /\ fresh_used' = stored.used_slugs
                 ELSE UNCHANGED <<fresh_tools, fresh_registry, fresh_used>>
        /\ UNCHANGED <<fresh_flags, fresh_now, fresh_others>>

\* A day passes.
FreshTick ==
    /\ fresh_flags # <<>>
    /\ fresh_now < MaxFreshDay
    /\ fresh_now' = fresh_now + 1
    /\ UNCHANGED <<fresh_tools, fresh_registry, fresh_used, fresh_flags, fresh_count,
                   fresh_last, fresh_others>>

NextFresh ==
    \/ ConsiderOpportunity
    \/ FreshTick

SpecFresh == InitFresh /\ [][NextFresh]_vars

\* C29: a comparison just generated and stored for tools (A, B) is seen as
\* fresh: with force false and a positive stale_after, the check on the
\* updated tools data answers False for (A, B) and for (B, A) as long as
\* less than stale_after has passed since the generation.
C29_StoredComparisonIsFresh ==
    fresh_last # <<>> /\ fresh_last.outcome = "generated" =>
        \A stale_after \in StaleAfterInputs :
            fresh_now - fresh_last.at < stale_after =>
                /\ ~_needs_comparison_generation(fresh_last.tool1, fresh_last.tool2,
                                                 fresh_tools, stale_after, FALSE, fresh_now)
                /\ ~_needs_comparison_generation(fresh_last.tool2, fresh_last.tool1,
                                                 fresh_tools, stale_after, FALSE, fresh_now)

\* No payload of the tools carries "generated_at".
NoGeneratedAt(tools) ==
    \A i \in DOMAIN tools : \A key \in DOMAIN tools[i].comparisons :
        "generated_at" \notin DOMAIN tools[i].comparisons[key]

\* What holds instead: an opportunity is only ever skipped on account of a
\* payload that still carries "generated_at", which no payload written by
\* _store_comparison_in_tools does.
SkippedOnlyByGeneratedAt ==
    fresh_last # <<>> /\ fresh_last.outcome = "skipped" => ~NoGeneratedAt(fresh_tools)

\* A comparison stored less than stale_after ago was generated again, force
\* not set.
RegeneratedWhileFresh ==
    /\ fresh_last # <<>>
    /\ fresh_last.outcome = "generated"
    /\ fresh_last.recent
    /\ ~fresh_flags.force
    /\ NoGeneratedAt(fresh_tools)

(***************************************************************************)
(* Dry runs of the three programs that write the tools document:           *)
(* migrate_dataset and generate_comparisons (Next) and enhance_tools_v2    *)
(* (NextEnhance).                                                          *)
(***************************************************************************)
InitRuns ==
    \/ Init
    \/ InitEnhance

NextRuns ==
    \/ Next
    \/ NextEnhance

SpecRuns == InitRuns /\ [][NextRuns]_vars

\* A step of a run of enhance_tools_v2 that was started with dry_run set.
EnhDryRunStep ==
    /\ enh_pc = "loop"
    /\ enh_flags.dry_run

\* The step that starts a run of enhance_tools_v2 with dry_run set.
EnhDryRunStart ==
    /\ enh_pc \in {"idle", "done", "aborted"}
    /\ enh_pc' = "loop"
    /\ enh_flags'.dry_run

\* C30: with dry_run set, migrate_dataset, generate_comparisons and
\* enhance_tools_v2 never write to storage: no step of such a run changes
\* the persisted tools document or the persisted registry document, and the
\* run never comes to its save_tools or save_slug_registry call.
C30_DryRunNeverWrites ==
    [][/\ dry_run =>
            /\ tools_json' = tools_json
            /\ stored_tools' = stored_tools
            /\ stored_registry' = stored_registry
            /\ stored_kind' = stored_kind
            /\ pc' \notin {"save_tools", "save_registry"}
       /\ EnhDryRunStep \/ EnhDryRunStart =>
            /\ tools_json' = tools_json
            /\ enh_stored' = enh_stored]_vars

\* What holds instead: a dry run that finds a tools document in the store
\* writes nothing.
DryRunKeepsExistingDocuments ==
    [][tools_json = "object" =>
         /\ dry_run =>
              /\ tools_json' = tools_json
              /\ stored_tools' = stored_tools
              /\ stored_registry' = stored_registry
              /\ stored_kind' = stored_kind
              /\ pc' \notin {"save_tools", "save_registry"}
         /\ EnhDryRunStep \/ EnhDryRunStart =>
              /\ tools_json' = tools_json
              /\ enh_stored' = enh_stored]_vars

\* A dry run has created the tools document it did not find.
DryRunCreatedDocument ==
    /\ dry_run
    /\ pc = "loop"
    /\ last.op = "load_slug_registry"
    /\ tools_json = "object"
    /\ stored_tools = <<>>
    /\ kind = "migrate"

\* A dry migration has ended with a tools document in memory that differs
\* from the persisted one.
DryMigrationDone ==
    /\ kind = "migrate"
    /\ dry_run
    /\ pc = "done"
    /\ tools_data # <<>>
    /\ tools_data # stored_tools
    /\ registry # stored_registry

\* A dry run of generate_comparisons has ended with comparisons generated.
DryGenerateDone ==
    /\ kind = "generate"
    /\ dry_run
    /\ pc = "done"
    /\ generated_count > 0

\* A dry run of enhance_tools_v2 has ended with tools enhanced in memory.
DryEnhanceDone ==
    /\ enh_pc = "done"
    /\ enh_flags.dry_run
    /\ enh_updated > 0
    /\ enh_tools # enh_stored
====
